---- MODULE Spec2Model ----
(***************************************************************************)
(* Model of the TIFF container engine of skora (src/src/tiff.rs,           *)
(* src/src/tiff_types.rs, src/src/endian_rw.rs): the structural decoder    *)
(* (read_tiff, read_ifd, read_ifd_tag_data), the offset validator          *)
(* (check_offset) and the sub-TIFF synthesizer (get_layers, copy_ifd,      *)
(* copy_tag_data).                                                         *)
(*                                                                         *)
(* Byte buffers are sequences over 0..255.  Rust indexes from 0, TLA+ from *)
(* 1: a Rust index i is the TLA+ index i+1, and the Rust range a..b is     *)
(* SubSeq(buf, a+1, b).  A Rust panic (slice out of range, unwrap of None, *)
(* explicit panic!()) is the control state "panic".                        *)
(***************************************************************************)
EXTENDS Integers, Sequences, FiniteSets, TLC

(***************************************************************************)
(* Bounds of the model.                                                    *)
(***************************************************************************)
\* usize is 64 bits wide (32 on some targets); the model keeps the wrap of
\* usize arithmetic at a scaled width of UsizeBits bits.  Every number the
\* decoder meets in the input files of this model is far below 2^UsizeBits.
UsizeBits == 28
\* The flat directory list is unbounded in the program; the model stops
\* growing it at MaxIfds entries (no well-founded input of the model has
\* that many directories).
MaxIfds == 6
\* The recursion of read_ifd is unbounded in the program; the model keeps
\* the innermost MaxDepth frames (no well-founded input nests that deep).
MaxDepth == 4
\* Number of steps the re-parse of a synthesized buffer is given.
MaxRunSteps == 24

UsizeMod == 2 ^ UsizeBits

(***************************************************************************)
(* Sequences of bytes.                                                     *)
(***************************************************************************)
Byte == 0 .. 255

\* buf[a..b] of Rust is defined when a <= b and b <= buf.len()
CanSlice(buf, a, b) == a >= 0 /\ a <= b /\ b <= Len(buf)

Slice(buf, a, b) == SubSeq(buf, a + 1, b)

RECURSIVE Repeat(_, _)
Repeat(x, n) == IF n <= 0 THEN <<>> ELSE <<x>> \o Repeat(x, n - 1)

RECURSIVE Flatten(_)
Flatten(ss) == IF ss = <<>> THEN <<>> ELSE Head(ss) \o Flatten(Tail(ss))

Reverse(s) == [i \in 1 .. Len(s) |-> s[Len(s) + 1 - i]]

\* vec[at] = byte, for every byte of bytes (Rust: image[ifd_pointer + idx] = *byte)
Overwrite(buf, at, bytes) ==
    [i \in 1 .. Len(buf) |->
        IF i > at /\ i <= at + Len(bytes) THEN bytes[i - at] ELSE buf[i]]

(***************************************************************************)
(* endian_rw.rs: the endian codec.                                         *)
(***************************************************************************)
RECURSIVE BigEndianRead(_, _)
\* byteorder::BigEndian::read_uint: the first byte is the most significant
BigEndianRead(buffer, size) ==
    IF size = 0 THEN 0
    ELSE BigEndianRead(buffer, size - 1) * 256 + buffer[size]

\* byteorder::LittleEndian::read_uint: the first byte is the least significant
LittleEndianRead(buffer, size) == BigEndianRead(Reverse(SubSeq(buffer, 1, size)), size)

order_read_swapped(endian, buffer, size) ==
    IF endian = "Big" THEN LittleEndianRead(buffer, size)
    ELSE BigEndianRead(buffer, size)

order_read(endian, buffer, size) ==
    IF endian = "Big" THEN BigEndianRead(buffer, size)
    ELSE LittleEndianRead(buffer, size)

RECURSIVE BigEndianBytes(_, _)
\* the size low bytes of data, most significant first
BigEndianBytes(data, size) ==
    IF size = 0 THEN <<>>
    ELSE BigEndianBytes(data \div 256, size - 1) \o <<data % 256>>

order_write(endian, data, size) ==
    IF endian = "Big" THEN BigEndianBytes(data, size)
    ELSE Reverse(BigEndianBytes(data, size))

\* each order_write_N returns the bytes it appends to the buffer
order_write_8(endian, data) == <<data % 256>>

order_write_16(endian, data) == order_write(endian, data % 65536, 2)

order_write_32(endian, data) == order_write(endian, data, 4)

order_write_64(endian, data) == order_write(endian, data, 8)

\* order_read of a value slot followed by u64::to_be_bytes / to_le_bytes (tiff.rs
\* lines 154-158 and 174-178): the 8 bytes of the u64 the slot was read into.
\* They are the slot itself, widened with zero bytes on the significant side;
\* written so, a slot whose u64 value is large needs no large number.
to_bytes8(endian, slot) ==
    IF endian = "Big" THEN Repeat(0, 8 - Len(slot)) \o slot
    ELSE slot \o Repeat(0, 8 - Len(slot))

(***************************************************************************)
(* tiff_types.rs: DataType and Data.                                       *)
(***************************************************************************)
DataTypeIds == 1 .. 5

\* the conversion with the ids of Short and Long exchanged
DataTypeFrom_short_long_swapped(n) ==
    CASE n = 1 -> "Byte"
      [] n = 2 -> "Ascii"
      [] n = 3 -> "Long"
      [] n = 4 -> "Short"
      [] n = 5 -> "Rational"

\* the conversion with the ids of Byte and Ascii exchanged
DataTypeFrom_byte_ascii_swapped(n) ==
    CASE n = 1 -> "Ascii"
      [] n = 2 -> "Byte"
      [] n = 3 -> "Short"
      [] n = 4 -> "Long"
      [] n = 5 -> "Rational"

\* impl From<u16> for DataType; outside 1..5 the conversion panics
DataTypeFrom(n) ==
    CASE n = 1 -> "Byte"
      [] n = 2 -> "Ascii"
      [] n = 3 -> "Short"
      [] n = 4 -> "Long"
      [] n = 5 -> "Rational"

\* Data::element_size_in_bytes, by the variant's name
element_size_in_bytes(datatype) ==
    CASE datatype = "Byte" -> 1
      [] datatype = "Ascii" -> 1
      [] datatype = "Short" -> 2
      [] datatype = "Long" -> 4
      [] datatype = "Rational" -> 8

\* Data::type_tiff_id
type_tiff_id(datatype) ==
    CASE datatype = "Byte" -> 1
      [] datatype = "Ascii" -> 2
      [] datatype = "Short" -> 3
      [] datatype = "Long" -> 4
      [] datatype = "Rational" -> 5

(***************************************************************************)
(* String::from_utf8_lossy and String::into_bytes.  A string is the        *)
(* sequence of its code points.  An invalid sequence decodes to U+FFFD,    *)
(* one per maximal invalid part, as the standard library does.             *)
(***************************************************************************)
ReplacementChar == 65533

IsCont(b) == b >= 128 /\ b <= 191

\* number of continuation bytes the lead byte b asks for (0: not a lead byte)
Utf8Need(b) ==
    IF b >= 194 /\ b <= 223 THEN 1
    ELSE IF b >= 224 /\ b <= 239 THEN 2
    ELSE IF b >= 240 /\ b <= 244 THEN 3
    ELSE 0

\* the range the second byte of a sequence led by b must lie in
Utf8SecondLo(b) == IF b = 224 THEN 160 ELSE IF b = 240 THEN 144 ELSE 128

Utf8SecondHi(b) == IF b = 237 THEN 159 ELSE IF b = 244 THEN 143 ELSE 191

RECURSIVE Utf8Lossy(_)
Utf8Lossy(raw) ==
    IF raw = <<>> THEN <<>>
    ELSE LET b == raw[1]
             n == Utf8Need(b)
             ok2 == Len(raw) >= 2 /\ raw[2] >= Utf8SecondLo(b) /\ raw[2] <= Utf8SecondHi(b)
             ok3 == Len(raw) >= 3 /\ IsCont(raw[3])
             ok4 == Len(raw) >= 4 /\ IsCont(raw[4])
         IN  IF b < 128 THEN <<b>> \o Utf8Lossy(Tail(raw))
             ELSE IF n = 0 \/ ~ok2 THEN <<ReplacementChar>> \o Utf8Lossy(Tail(raw))
             ELSE IF n = 1 THEN
                 <<(b - 192) * 64 + (raw[2] - 128)>> \o Utf8Lossy(SubSeq(raw, 3, Len(raw)))
             ELSE IF ~ok3 THEN <<ReplacementChar>> \o Utf8Lossy(SubSeq(raw, 3, Len(raw)))
             ELSE IF n = 2 THEN
                 <<(b - 224) * 4096 + (raw[2] - 128) * 64 + (raw[3] - 128)>>
                     \o Utf8Lossy(SubSeq(raw, 4, Len(raw)))
             ELSE IF ~ok4 THEN <<ReplacementChar>> \o Utf8Lossy(SubSeq(raw, 4, Len(raw)))
             ELSE <<(b - 240) * 262144 + (raw[2] - 128) * 4096
                        + (raw[3] - 128) * 64 + (raw[4] - 128)>>
                     \o Utf8Lossy(SubSeq(raw, 5, Len(raw)))

Utf8EncodeChar(c) ==
    IF c < 128 THEN <<c>>
    ELSE IF c < 2048 THEN <<192 + (c \div 64), 128 + (c % 64)>>
    ELSE IF c < 65536 THEN
        <<224 + (c \div 4096), 128 + ((c \div 64) % 64), 128 + (c % 64)>>
    ELSE <<240 + (c \div 262144), 128 + ((c \div 4096) % 64),
           128 + ((c \div 64) % 64), 128 + (c % 64)>>

RECURSIVE Utf8Encode(_)
Utf8Encode(str) ==
    IF str = <<>> THEN <<>> ELSE Utf8EncodeChar(Head(str)) \o Utf8Encode(Tail(str))

(***************************************************************************)
(* Data::new and Data::to_vec_u8.  A Data value is [kind, val]; an element *)
(* of a Rational is <<ratio, numerator, denominator>>.                     *)
(***************************************************************************)
RECURSIVE Gcd(_, _)
Gcd(a, b) == IF b = 0 THEN a ELSE Gcd(b, a % b)

\* numerator as f64 / denominator as f64: the quotient as a reduced
\* fraction; x/0 is an infinity and 0/0 a NaN of IEEE arithmetic
Ratio(num, den) ==
    IF den = 0 THEN (IF num = 0 THEN <<"NaN">> ELSE <<"inf">>)
    ELSE <<num \div Gcd(num, den), den \div Gcd(num, den)>>

\* the count integers of width bytes each that raw_data holds
ReadInts(raw_data, endian, count, width) ==
    [n \in 1 .. count |->
        order_read(endian, Slice(raw_data, (n - 1) * width, n * width), width)]

DataNew_ignores_endian(raw_data, data_type, endian, count) ==
    CASE data_type = "Byte" ->
            [kind |-> "Byte", val |-> ReadInts(raw_data, "Little", count, 1)]
      [] data_type = "Ascii" ->
            [kind |-> "Ascii", val |-> Utf8Lossy(raw_data)]
      [] data_type = "Short" ->
            [kind |-> "Short", val |-> ReadInts(raw_data, "Little", count, 2)]
      [] data_type = "Long" ->
            [kind |-> "Long", val |-> ReadInts(raw_data, "Little", count, 4)]
      [] data_type = "Rational" ->
            LET tag_data_raw == ReadInts(raw_data, "Little", count * 2, 4)
            IN  [kind |-> "Rational",
                 val |-> [n \in 1 .. count |->
                     <<Ratio(tag_data_raw[2 * n - 1], tag_data_raw[2 * n]),
                       tag_data_raw[2 * n - 1], tag_data_raw[2 * n]>>]]

DataNew(raw_data, data_type, endian, count) ==
    CASE data_type = "Byte" ->
            [kind |-> "Byte", val |-> ReadInts(raw_data, endian, count, 1)]
      [] data_type = "Ascii" ->
            [kind |-> "Ascii", val |-> Utf8Lossy(raw_data)]
      [] data_type = "Short" ->
            [kind |-> "Short", val |-> ReadInts(raw_data, endian, count, 2)]
      [] data_type = "Long" ->
            [kind |-> "Long", val |-> ReadInts(raw_data, endian, count, 4)]
      [] data_type = "Rational" ->
            LET tag_data_raw == ReadInts(raw_data, endian, count * 2, 4)
            IN  [kind |-> "Rational",
                 val |-> [n \in 1 .. count |->
                     <<Ratio(tag_data_raw[2 * n - 1], tag_data_raw[2 * n]),
                       tag_data_raw[2 * n - 1], tag_data_raw[2 * n]>>]]

to_vec_u8(data, endian) ==
    CASE data.kind = "Byte" ->
            Flatten([i \in 1 .. Len(data.val) |-> order_write_8(endian, data.val[i])])
      [] data.kind = "Ascii" -> Utf8Encode(data.val)
      [] data.kind = "Short" ->
            Flatten([i \in 1 .. Len(data.val) |-> order_write_16(endian, data.val[i])])
      [] data.kind = "Long" ->
            Flatten([i \in 1 .. Len(data.val) |-> order_write_32(endian, data.val[i])])
      [] data.kind = "Rational" ->
            Flatten([i \in 1 .. Len(data.val) |->
                order_write_32(endian, data.val[i][2])
                    \o order_write_32(endian, data.val[i][3])])

(***************************************************************************)
(* tiff.rs: check_offset.  offset + length is usize arithmetic: a build    *)
(* without overflow checks wraps it, a build with them panics.             *)
(***************************************************************************)
check_offset_no_minimum(source_length, offset, length) ==
    ((offset + length) % UsizeMod) <= source_length

check_offset(source_length, offset, length) ==
    (offset >= 8) /\ (((offset + length) % UsizeMod) <= source_length)

\* what a call can produce, over the builds of the crate
check_offset_outcomes(source_length, offset, length) ==
    {IF check_offset(source_length, offset, length) THEN "true" ELSE "false"}
        \cup (IF offset + length >= UsizeMod THEN {"panic"} ELSE {})

(***************************************************************************)
(* tiff_types.rs: Info, Ifd and Tag.  An Option is a sequence: <<>> is     *)
(* None and <<v>> is Some(v).  The BTreeMap of an Ifd is a function from   *)
(* the tag ids it holds; its iteration order is the ascending order.       *)
(***************************************************************************)
None == <<>>

Some(v) == <<v>>

EmptyMap == <<>>

\* BTreeMap::insert: a later value replaces an earlier one of the same key
MapInsert_keep_first(map, key, value) ==
    [k \in (DOMAIN map) \cup {key} |-> IF k \in DOMAIN map THEN map[k] ELSE value]

MapInsert(map, key, value) ==
    [k \in (DOMAIN map) \cup {key} |-> IF k = key THEN value ELSE map[k]]

RECURSIVE SortedSeq(_)
SortedSeq(S) ==
    IF S = {} THEN <<>>
    ELSE LET m == CHOOSE x \in S : \A y \in S : x <= y
         IN  <<m>> \o SortedSeq(S \ {m})

\* BTreeMap::keys / iter_mut: the keys in ascending order
MapKeys_descending(map) == Reverse(SortedSeq(DOMAIN map))

MapKeys(map) == SortedSeq(DOMAIN map)

(***************************************************************************)
(* tiff.rs: read_tiff, the header part (lines 30-76).  The result is       *)
(* [pc, panic, err, info]: pc "walk" when the header was accepted, "err"   *)
(* on a returned Err, "panic" on a panic.                                  *)
(***************************************************************************)
Magics == {<<73, 73, 42, 0>>, <<77, 77, 0, 42>>, <<73, 73, 43, 0>>, <<77, 77, 0, 43>>}

NoInfo == [endian |-> "Little", big_tiff |-> FALSE, first_ifd |-> 0, header |-> <<>>, size |-> 0]

HeaderOutcome(pc, panic, err, info) == [pc |-> pc, panic |-> panic, err |-> err, info |-> info]

\* lines 52-67, once the magic has been accepted and header[4] could be read
ReadFirstIfd(file, header, endian, big_tiff) ==
    LET info(first_ifd) == [endian |-> endian, big_tiff |-> big_tiff, first_ifd |-> first_ifd,
                            header |-> header, size |-> Len(file)]
    IN  IF big_tiff THEN
            IF ~CanSlice(file, 4, 6) THEN HeaderOutcome("panic", "slice file[4..6]", "", NoInfo)
            ELSE IF order_read(endian, Slice(file, 4, 6), 2) # 8 THEN
                HeaderOutcome("err", "", "Unexpected big tiff offset size", NoInfo)
            ELSE IF ~CanSlice(file, 8, 12) THEN
                HeaderOutcome("panic", "slice file[8..12]", "", NoInfo)
            ELSE HeaderOutcome("walk", "", "", info(order_read(endian, Slice(file, 8, 12), 4)))
        ELSE IF ~CanSlice(file, 4, 8) THEN HeaderOutcome("panic", "slice file[4..8]", "", NoInfo)
        ELSE HeaderOutcome("walk", "", "", info(order_read(endian, Slice(file, 4, 8), 4)))

ReadHeader_reads_byte_4_of_file(file) ==
    IF ~CanSlice(file, 0, 4) THEN HeaderOutcome("panic", "slice file[0..4]", "", NoInfo)
    ELSE LET header == Slice(file, 0, 4)
             endian == IF header[1] = 77 /\ header[2] = 77 THEN "Big" ELSE "Little"
         IN  IF header \notin Magics THEN
                 HeaderOutcome("err", "", "The header is not valid", NoInfo)
             ELSE IF header[3] # 43 THEN ReadFirstIfd(file, header, endian, FALSE)
             ELSE IF ~(4 < Len(file)) THEN HeaderOutcome("panic", "index file[4]", "", NoInfo)
             ELSE ReadFirstIfd(file, header, endian, file[5] = 8)

ReadHeader_endian_from_version(file) ==
    IF ~CanSlice(file, 0, 4) THEN HeaderOutcome("panic", "slice file[0..4]", "", NoInfo)
    ELSE LET header == Slice(file, 0, 4)
             endian == IF header[3] = 0 THEN "Big" ELSE "Little"
         IN  IF header \notin Magics THEN
                 HeaderOutcome("err", "", "The header is not valid", NoInfo)
             ELSE IF header[3] # 43 THEN ReadFirstIfd(file, header, endian, FALSE)
             ELSE IF ~(4 < Len(header)) THEN HeaderOutcome("panic", "index header[4]", "", NoInfo)
             ELSE ReadFirstIfd(file, header, endian, header[5] = 8)

ReadHeader(file) ==
    IF ~CanSlice(file, 0, 4) THEN HeaderOutcome("panic", "slice file[0..4]", "", NoInfo)
    ELSE LET header == Slice(file, 0, 4)
             endian == IF header[1] = 77 /\ header[2] = 77 THEN "Big" ELSE "Little"
         IN  IF header \notin Magics THEN
                 HeaderOutcome("err", "", "The header is not valid", NoInfo)
             \* header[2] == 0x2B && header[4] == 0x08: && evaluates header[4] only
             \* when header[2] is 0x2B, and header holds 4 bytes
             ELSE IF header[3] # 43 THEN ReadFirstIfd(file, header, endian, FALSE)
             ELSE IF ~(4 < Len(header)) THEN HeaderOutcome("panic", "index header[4]", "", NoInfo)
             ELSE ReadFirstIfd(file, header, endian, header[5] = 8)

(***************************************************************************)
(* tiff.rs: read_ifd, from the bounds check to the next-directory pointer  *)
(* (lines 106-212).  The numbers read here (counts, offsets) stay far      *)
(* below the width of u64 in every input of the model.                     *)
(***************************************************************************)
\* width of the entry-count field, of the count field and of the value slot
CountFieldSize(big_tiff) == IF big_tiff THEN 8 ELSE 2

SlotSize(big_tiff) == IF big_tiff THEN 8 ELSE 4

\* lines 185-197: the Tag of one entry; the slot is a pointer when the value
\* does not fit it
NewTag_offset_when_not_smaller(big_tiff, endian, datatype, count, slot, datapos) ==
    [count |-> count,
     data |-> [kind |-> "Byte", val |-> to_bytes8(endian, slot)],
     datapos |-> datapos,
     datatype |-> datatype,
     ifds |-> None,
     offset |-> IF count * element_size_in_bytes(datatype) >= SlotSize(big_tiff)
                THEN Some(order_read(endian, slot, Len(slot))) ELSE None]

\* the Tag of one entry, with the slot of the big variant taken for both
NewTag_slot_of_big_variant(big_tiff, endian, datatype, count, slot, datapos) ==
    [count |-> count,
     data |-> [kind |-> "Byte", val |-> to_bytes8(endian, slot)],
     datapos |-> datapos,
     datatype |-> datatype,
     ifds |-> None,
     offset |-> IF count * element_size_in_bytes(datatype) > SlotSize(TRUE)
                THEN Some(order_read(endian, slot, Len(slot))) ELSE None]

NewTag(big_tiff, endian, datatype, count, slot, datapos) ==
    [count |-> count,
     data |-> [kind |-> "Byte", val |-> to_bytes8(endian, slot)],
     datapos |-> datapos,
     datatype |-> datatype,
     ifds |-> None,
     offset |-> IF count * element_size_in_bytes(datatype) > SlotSize(big_tiff)
                THEN Some(order_read(endian, slot, Len(slot))) ELSE None]

EntriesOutcome(res, panic, tags, offset, log) ==
    [res |-> res, panic |-> panic, tags |-> tags, offset |-> offset, log |-> log]

RECURSIVE ReadEntries_skips_unknown_type(_, _, _, _, _, _)
\* the loop of lines 135-207 passing over an entry of unknown type
ReadEntries_skips_unknown_type(file, info, offset, remaining, tags, log) ==
    LET cw == SlotSize(info.big_tiff)
    IN  IF remaining = 0 THEN EntriesOutcome("ok", "", tags, offset, log)
        ELSE IF ~CanSlice(file, offset, offset + 2) \/ ~CanSlice(file, offset + 2, offset + 4)
            THEN EntriesOutcome("panic", "slice entry", tags, offset, log)
        ELSE LET tag == order_read(info.endian, Slice(file, offset, offset + 2), 2)
                 type == order_read(info.endian, Slice(file, offset + 2, offset + 4), 2)
             IN  IF type \notin DataTypeIds
                     THEN ReadEntries_skips_unknown_type(file, info, offset + 4 + 2 * cw,
                                                         remaining - 1, tags, log)
                 ELSE IF ~CanSlice(file, offset + 4, offset + 4 + cw)
                         \/ ~CanSlice(file, offset + 4 + cw, offset + 4 + 2 * cw)
                     THEN EntriesOutcome("panic", "slice entry", tags, offset, log)
                 ELSE LET count == order_read(info.endian,
                                       Slice(file, offset + 4, offset + 4 + cw), cw)
                          slot == Slice(file, offset + 4 + cw, offset + 4 + 2 * cw)
                          next == offset + 4 + 2 * cw
                          tag_info == NewTag(info.big_tiff, info.endian, DataTypeFrom(type),
                                             count, slot, next - cw)
                      IN  ReadEntries_skips_unknown_type(file, info, next, remaining - 1,
                                      MapInsert(tags, tag, tag_info),
                                      IF tag \in DOMAIN tags THEN log \cup {"Duplicate tag"}
                                      ELSE log)

RECURSIVE ReadEntries(_, _, _, _, _, _)
\* lines 135-207: the loop over the declared entries, from file offset `offset`
ReadEntries(file, info, offset, remaining, tags, log) ==
    LET cw == SlotSize(info.big_tiff)
    IN  IF remaining = 0 THEN EntriesOutcome("ok", "", tags, offset, log)
        ELSE IF ~CanSlice(file, offset, offset + 2) \/ ~CanSlice(file, offset + 2, offset + 4)
            THEN EntriesOutcome("panic", "slice entry", tags, offset, log)
        ELSE LET tag == order_read(info.endian, Slice(file, offset, offset + 2), 2)
                 type == order_read(info.endian, Slice(file, offset + 2, offset + 4), 2)
             IN  IF type \notin DataTypeIds
                     THEN EntriesOutcome("panic", "DataType::from", tags, offset, log)
                 ELSE IF ~CanSlice(file, offset + 4, offset + 4 + cw)
                         \/ ~CanSlice(file, offset + 4 + cw, offset + 4 + 2 * cw)
                     THEN EntriesOutcome("panic", "slice entry", tags, offset, log)
                 ELSE LET count == order_read(info.endian,
                                       Slice(file, offset + 4, offset + 4 + cw), cw)
                          slot == Slice(file, offset + 4 + cw, offset + 4 + 2 * cw)
                          next == offset + 4 + 2 * cw
                          tag_info == NewTag(info.big_tiff, info.endian, DataTypeFrom(type),
                                             count, slot, next - cw)
                      IN  ReadEntries(file, info, next, remaining - 1,
                                      MapInsert(tags, tag, tag_info),
                                      IF tag \in DOMAIN tags THEN log \cup {"Duplicate tag"}
                                      ELSE log)

IfdOutcome(res, panic, ifd, next_ifd, log) ==
    [res |-> res, panic |-> panic, ifd |-> ifd, next_ifd |-> next_ifd, log |-> log]

NoIfd == [offset |-> 0, tags |-> EmptyMap, size |-> 0, endian |-> "Little",
          big_tiff |-> FALSE, tag_count |-> 0]

\* lines 113-212: the directory at ifd_offset, once the bounds check passed
ReadIfdBody(file, info, ifd_offset) ==
    LET cs == CountFieldSize(info.big_tiff)
        ps == SlotSize(info.big_tiff)
    IN  IF ~CanSlice(file, ifd_offset, ifd_offset + cs)
            THEN IfdOutcome("panic", "slice tag_count", NoIfd, 0, {})
        ELSE LET tag_count == order_read(info.endian, Slice(file, ifd_offset, ifd_offset + cs), cs)
                 e == ReadEntries(file, info, ifd_offset + cs, tag_count, EmptyMap, {})
                 ifd == [offset |-> ifd_offset, tags |-> e.tags, size |-> info.size,
                         endian |-> info.endian, big_tiff |-> info.big_tiff,
                         tag_count |-> tag_count]
             IN  IF e.res = "panic" THEN IfdOutcome("panic", e.panic, NoIfd, 0, e.log)
                 ELSE IF ~CanSlice(file, e.offset, e.offset + ps)
                     THEN IfdOutcome("panic", "slice next_ifd", NoIfd, 0, e.log)
                 ELSE IfdOutcome("some", "", ifd,
                                 order_read(info.endian, Slice(file, e.offset, e.offset + ps), ps),
                                 e.log)

ReadIfdHead_unchecked(file, info, ifd_offset) == ReadIfdBody(file, info, ifd_offset)

\* res "none": read_ifd returns None; "some": the directory is read and
\* read_ifd goes on to read_ifd_tag_data; "panic": a slice or a conversion panicked
ReadIfdHead(file, info, ifd_offset) ==
    LET length == IF info.big_tiff THEN 16 ELSE 6
    IN  IF ~check_offset(info.size, ifd_offset, length)
            THEN IfdOutcome("none", "", NoIfd, 0, {"Cannot read"})
        ELSE ReadIfdBody(file, info, ifd_offset)

(***************************************************************************)
(* tiff.rs: read_ifd_tag_data, one tag (lines 231-253).                    *)
(***************************************************************************)
TagOutcome(res, panic, tag_info, log) ==
    [res |-> res, panic |-> panic, tag_info |-> tag_info, log |-> log]

ResolveTag_skips_bad_span(file, info, tag, tag_info) ==
    LET type_size == element_size_in_bytes(tag_info.datatype)
        pos == IF tag_info.offset = None THEN tag_info.datapos ELSE tag_info.offset[1]
        byte_count == tag_info.count * type_size
        ok == check_offset(info.size, pos, byte_count)
    IN  IF ~ok THEN TagOutcome("ok", "", tag_info, {"Cannot read", "OMG Its gone wrong"})
        ELSE TagOutcome("ok", "",
                [tag_info EXCEPT
                    !.data = DataNew(Slice(file, pos, pos + byte_count), tag_info.datatype,
                                     info.endian, tag_info.count),
                    !.ifds = IF tag = 330 THEN Some(<<>>) ELSE @],
                {})

ResolveTag(file, info, tag, tag_info) ==
    LET type_size == element_size_in_bytes(tag_info.datatype)
        \* tag_info.offset.unwrap_or(tag_info.datapos)
        pos == IF tag_info.offset = None THEN tag_info.datapos ELSE tag_info.offset[1]
        byte_count == tag_info.count * type_size
        ok == check_offset(info.size, pos, byte_count)
        log == IF ok THEN {} ELSE {"Cannot read", "OMG Its gone wrong"}
    IN  \* the failed check is printed; the slice is taken whatever it said
        IF ~CanSlice(file, pos, pos + byte_count)
            THEN TagOutcome("panic", "slice raw_data", tag_info, log)
        ELSE TagOutcome("ok", "",
                [tag_info EXCEPT
                    !.data = DataNew(Slice(file, pos, pos + byte_count), tag_info.datatype,
                                     info.endian, tag_info.count),
                    !.ifds = IF tag = 330 THEN Some(<<>>) ELSE @],
                log)

(***************************************************************************)
(* The directory walk of read_tiff (lines 78-88), read_ifd (lines 100-218) *)
(* and read_ifd_tag_data (lines 229-264) as a machine with an explicit     *)
(* call stack.  A walk state is                                            *)
(*   [file, info, mode, pc, panic, err, next_ifd, stack, ifd_list, log].   *)
(* A frame of the stack is one activation of read_ifd that has read its    *)
(* entries:                                                                *)
(*   ifd     the directory under construction                              *)
(*   keys    the tags read_ifd_tag_data has still to resolve, ascending    *)
(*   insub   inside the loop over the offsets of tag 330                   *)
(*   subs    the sub-directory offsets still to start from                 *)
(*   next    next_ifd of the while loop of line 257                        *)
(*   ret     the next-directory pointer read_ifd will return               *)
(* mode "read_tiff" is a call of read_tiff; mode "read_ifd" is a call of   *)
(* the public read_ifd alone, with an Info of the caller's.                *)
(***************************************************************************)
Frame(ifd, ret) ==
    [ifd |-> ifd, keys |-> MapKeys(ifd.tags), insub |-> FALSE, subs |-> <<>>,
     next |-> 0, ret |-> ret]

Top(stack) == stack[Len(stack)]

Pop(stack) == SubSeq(stack, 1, Len(stack) - 1)

SetTop(stack, frame) == [stack EXCEPT ![Len(stack)] = frame]

\* a call frame is pushed; beyond MaxDepth frames the outermost is forgotten
Push(stack, frame) ==
    IF Len(stack) < MaxDepth THEN Append(stack, frame)
    ELSE Append(Tail(stack), frame)

\* ifd_list.push(ifd); the list of the model holds MaxIfds directories at most
ListPush_front(ifd_list, ifd) ==
    IF Len(ifd_list) < MaxIfds THEN <<ifd>> \o ifd_list ELSE ifd_list

ListPush(ifd_list, ifd) ==
    IF Len(ifd_list) < MaxIfds THEN Append(ifd_list, ifd) ELSE ifd_list

StartWalk(file, h, mode) ==
    [file |-> file, info |-> h.info, mode |-> mode, pc |-> h.pc, panic |-> h.panic,
     err |-> h.err, next_ifd |-> h.info.first_ifd, stack |-> <<>>, ifd_list |-> <<>>,
     log |-> {}]

\* a call read_ifd(file, info, ifd_offset, ifd_list) from a loop that unwraps
\* its result (lines 84 and 258)
CallReadIfd_none_ends_chain(w, ifd_offset) ==
    LET r == ReadIfdHead(w.file, w.info, ifd_offset)
        logged == [w EXCEPT !.log = @ \cup r.log]
    IN  CASE r.res = "panic" -> [logged EXCEPT !.pc = "panic", !.panic = r.panic]
          [] r.res = "none" ->
                IF w.stack = <<>> THEN [logged EXCEPT !.next_ifd = 0]
                ELSE [logged EXCEPT !.stack = SetTop(@, [Top(@) EXCEPT !.next = 0])]
          [] r.res = "some" -> [logged EXCEPT !.stack = Push(@, Frame(r.ifd, r.next_ifd))]

CallReadIfd(w, ifd_offset) ==
    LET r == ReadIfdHead(w.file, w.info, ifd_offset)
        logged == [w EXCEPT !.log = @ \cup r.log]
    IN  CASE r.res = "panic" -> [logged EXCEPT !.pc = "panic", !.panic = r.panic]
          [] r.res = "none" ->
                \* a lone read_ifd returns None; the loops unwrap it
                IF w.mode = "read_ifd" /\ w.stack = <<>>
                    THEN [logged EXCEPT !.pc = "done", !.next_ifd = 0]
                ELSE [logged EXCEPT !.pc = "panic", !.panic = "unwrap None"]
          [] r.res = "some" -> [logged EXCEPT !.stack = Push(@, Frame(r.ifd, r.next_ifd))]

\* lines 230-253: the next tag of the directory of the top frame
ResolveStep(w) ==
    LET top == Top(w.stack)
        tag == Head(top.keys)
        r == ResolveTag(w.file, w.info, tag, top.ifd.tags[tag])
        ifd == [top.ifd EXCEPT !.tags = MapInsert(@, tag, r.tag_info)]
        sub == tag = 330 /\ r.tag_info.data.kind = "Long"
        logged == [w EXCEPT !.log = @ \cup r.log]
    IN  IF r.res = "panic" THEN [logged EXCEPT !.pc = "panic", !.panic = r.panic]
        ELSE [logged EXCEPT !.stack = SetTop(@,
                [top EXCEPT !.ifd = ifd, !.keys = Tail(top.keys), !.insub = sub,
                            !.subs = IF sub THEN r.tag_info.data.val ELSE <<>>,
                            !.next = 0])]

\* lines 215-217: the directory is appended after its sub-directories and
\* its next-directory pointer goes to the loop that called read_ifd
ReturnStep_parent_first(w) ==
    LET top == Top(w.stack)
        rest == Pop(w.stack)
        pushed == [w EXCEPT !.ifd_list = ListPush_front(@, top.ifd), !.stack = rest]
    IN  IF rest = <<>> THEN
            IF w.mode = "read_ifd" THEN [pushed EXCEPT !.pc = "done", !.next_ifd = top.ret]
            ELSE [pushed EXCEPT !.next_ifd = top.ret]
        ELSE [pushed EXCEPT !.stack = SetTop(rest, [Top(rest) EXCEPT !.next = top.ret])]

ReturnStep(w) ==
    LET top == Top(w.stack)
        rest == Pop(w.stack)
        pushed == [w EXCEPT !.ifd_list = ListPush(@, top.ifd), !.stack = rest]
    IN  IF rest = <<>> THEN
            IF w.mode = "read_ifd" THEN [pushed EXCEPT !.pc = "done", !.next_ifd = top.ret]
            ELSE [pushed EXCEPT !.next_ifd = top.ret]
        ELSE [pushed EXCEPT !.stack = SetTop(rest, [Top(rest) EXCEPT !.next = top.ret])]

\* lines 255-260: the loops over the offsets of tag 330
SubLoopStep_last_offset_first(w) ==
    LET top == Top(w.stack)
    IN  IF top.next > 0 THEN CallReadIfd(w, top.next)
        ELSE IF top.subs # <<>> THEN
            [w EXCEPT !.stack = SetTop(@, [top EXCEPT !.next = top.subs[Len(top.subs)],
                                                      !.subs = SubSeq(top.subs, 1, Len(top.subs) - 1)])]
        ELSE [w EXCEPT !.stack = SetTop(@, [top EXCEPT !.insub = FALSE])]

SubLoopStep(w) ==
    LET top == Top(w.stack)
    IN  IF top.next > 0 THEN CallReadIfd(w, top.next)
        ELSE IF top.subs # <<>> THEN
            [w EXCEPT !.stack = SetTop(@, [top EXCEPT !.next = Head(top.subs),
                                                      !.subs = Tail(top.subs)])]
        ELSE [w EXCEPT !.stack = SetTop(@, [top EXCEPT !.insub = FALSE])]

\* one step of the walk, for a walk state with pc = "walk"
WalkStep(w) ==
    IF w.stack = <<>> THEN
        \* lines 82-88 (read_tiff), or the first and only call of a lone read_ifd
        IF w.mode = "read_ifd" \/ w.next_ifd > 0 THEN CallReadIfd(w, w.next_ifd)
        ELSE [w EXCEPT !.pc = "done"]
    ELSE IF Top(w.stack).insub THEN SubLoopStep(w)
    ELSE IF Top(w.stack).keys # <<>> THEN ResolveStep(w)
    ELSE ReturnStep(w)

RECURSIVE RunWalk(_, _)
\* the walk run to its end, or for `fuel` steps
RunWalk(w, fuel) ==
    IF w.pc # "walk" \/ fuel = 0 THEN w ELSE RunWalk(WalkStep(w), fuel - 1)

\* read_tiff(file), as the state its walk begins in
read_tiff_start(file) == StartWalk(file, ReadHeader(file), "read_tiff")

\* read_ifd(file, info, ifd_offset, ifd_list) called with an empty list
read_ifd_start(file, info, ifd_offset) ==
    [file |-> file, info |-> info, mode |-> "read_ifd", pc |-> "walk", panic |-> "",
     err |-> "", next_ifd |-> ifd_offset, stack |-> <<>>, ifd_list |-> <<>>, log |-> {}]

(***************************************************************************)
(* tiff.rs: copy_tag_data (lines 558-603).  The result is                  *)
(* [res, panic, image, dest_offsets].                                      *)
(***************************************************************************)
CopyOutcome(res, panic, image, dest_offsets) ==
    [res |-> res, panic |-> panic, image |-> image, dest_offsets |-> dest_offsets]

RECURSIVE CopyChunks(_, _, _, _, _, _)
\* lines 579-594: the chunks from olidx on, appended to image in order
CopyChunks(image, source, offsets, lengths, source_length, olidx) ==
    IF olidx > Len(offsets) THEN CopyOutcome("ok", "", image, <<>>)
    ELSE LET offset == offsets[olidx]
             length == lengths[olidx]
         IN  IF ~check_offset(source_length, offset, length)
                 THEN CopyChunks(image, source, offsets, lengths, source_length, olidx + 1)
             ELSE IF ~CanSlice(source, offset, offset + length)
                 THEN CopyOutcome("panic", "slice source", image, <<>>)
             ELSE CopyChunks(image \o Slice(source, offset, offset + length),
                             source, offsets, lengths, source_length, olidx + 1)

RECURSIVE SumTo(_, _)
SumTo(lengths, n) == IF n = 0 THEN 0 ELSE SumTo(lengths, n - 1) + lengths[n]

\* lines 569-571 and 596-600: the first destination is the length of the
\* image before the copy, each later one the one before plus its length
DestOffsets_from_zero(image, offsets, lengths) ==
    [index \in 1 .. Len(offsets) |-> SumTo(lengths, index - 1)]

DestOffsets(image, offsets, lengths) ==
    [index \in 1 .. Len(offsets) |-> Len(image) + SumTo(lengths, index - 1)]

copy_tag_data_reversed(image, source, offsets, lengths, source_length) ==
    IF offsets = <<>> THEN CopyOutcome("panic", "index dest_offsets[0]", image, <<>>)
    ELSE IF Len(lengths) < Len(offsets) THEN CopyOutcome("panic", "index lengths[idx]", image, <<>>)
    ELSE IF Len(lengths) > Len(offsets)
        THEN CopyOutcome("panic", "index dest_offsets[index]", image, <<>>)
    ELSE LET c == CopyChunks(image, source, Reverse(offsets), Reverse(lengths), source_length, 1)
         IN  IF c.res = "panic" THEN c
             ELSE CopyOutcome("ok", "", c.image, DestOffsets(image, offsets, lengths))

copy_tag_data(image, source, offsets, lengths, source_length) ==
    IF offsets = <<>> THEN CopyOutcome("panic", "index dest_offsets[0]", image, <<>>)
    ELSE IF Len(lengths) < Len(offsets) THEN CopyOutcome("panic", "index lengths[idx]", image, <<>>)
    ELSE IF Len(lengths) > Len(offsets)
        THEN CopyOutcome("panic", "index dest_offsets[index]", image, <<>>)
    ELSE LET c == CopyChunks(image, source, offsets, lengths, source_length, 1)
         IN  IF c.res = "panic" THEN c
             ELSE CopyOutcome("ok", "", c.image, DestOffsets(image, offsets, lengths))

(***************************************************************************)
(* tiff.rs: copy_ifd (lines 364-542).                                      *)
(***************************************************************************)
PointerTags == {273, 288, 324, 513, 519, 520, 521}

\* the tag that holds the byte counts of a pointer tag (0: constant lengths)
ByteCountTag(tag_num) ==
    CASE tag_num = 273 -> 279
      [] tag_num = 288 -> 289
      [] tag_num = 324 -> 325
      [] tag_num = 513 -> 514
      [] OTHER -> 0

SynthOutcome(res, panic, image, ifd_record) ==
    [res |-> res, panic |-> panic, image |-> image, ifd_record |-> ifd_record]

\* lines 457-501: the entry record of one tag and the image after it
EmitTag_unaligned(ifd, tag_num, datatype, count, data, image, ifd_record) ==
    LET tag_data_length == SlotSize(ifd.big_tiff)
        data_output == to_vec_u8(data, ifd.endian)
        head == order_write_16(ifd.endian, tag_num)
                    \o order_write_16(ifd.endian, type_tiff_id(datatype))
                    \o (IF tag_data_length = 4 THEN order_write_32(ifd.endian, count)
                        ELSE order_write_64(ifd.endian, count))
    IN  IF Len(data_output) <= tag_data_length THEN
            SynthOutcome("ok", "", image,
                ifd_record \o head \o data_output
                    \o Repeat(0, tag_data_length - Len(data_output)))
        ELSE SynthOutcome("ok", "", image \o data_output,
                    ifd_record \o head
                        \o (IF tag_data_length = 4
                            THEN order_write_32(ifd.endian, Len(image))
                            ELSE order_write_64(ifd.endian, Len(image))))

EmitTag(ifd, tag_num, datatype, count, data, image, ifd_record) ==
    LET tag_data_length == SlotSize(ifd.big_tiff)
        data_output == to_vec_u8(data, ifd.endian)
        head == order_write_16(ifd.endian, tag_num)
                    \o order_write_16(ifd.endian, type_tiff_id(datatype))
                    \o (IF tag_data_length = 4 THEN order_write_32(ifd.endian, count)
                        ELSE order_write_64(ifd.endian, count))
    IN  IF Len(data_output) <= tag_data_length THEN
            SynthOutcome("ok", "", image,
                ifd_record \o head \o data_output
                    \o Repeat(0, tag_data_length - Len(data_output)))
        ELSE LET aligned == IF Len(image) % 2 = 1 THEN Append(image, 0) ELSE image
             IN  SynthOutcome("ok", "", aligned \o data_output,
                    ifd_record \o head
                        \o (IF tag_data_length = 4
                            THEN order_write_32(ifd.endian, Len(aligned))
                            ELSE order_write_64(ifd.endian, Len(aligned))))

\* lines 381-455: one tag of the loop; a pointer tag has its chunks copied
\* and its value replaced by their new offsets
CopyTag_keeps_source_offsets(ifd, tag_num, image, ifd_record, source) ==
    LET tag_info == ifd.tags[tag_num]
    IN  EmitTag(ifd, tag_num, tag_info.datatype, tag_info.count, tag_info.data, image, ifd_record)

CopyTag(ifd, tag_num, image, ifd_record, source) ==
    LET tag_info == ifd.tags[tag_num]
        data == tag_info.data
        count == tag_info.count
        pair == ByteCountTag(tag_num)
    IN  IF tag_num \notin PointerTags THEN
            EmitTag(ifd, tag_num, tag_info.datatype, count, data, image, ifd_record)
        ELSE IF pair # 0 /\ pair \notin DOMAIN ifd.tags
            THEN SynthOutcome("panic", "index ifd.tags[byte counts]", image, ifd_record)
        ELSE IF pair # 0 /\ ifd.tags[pair].data.kind # "Long"
            THEN SynthOutcome("panic", "panic!() byte counts not Long", image, ifd_record)
        ELSE IF data.kind # "Long"
            THEN SynthOutcome("panic", "panic!() offsets not Long", image, ifd_record)
        ELSE LET ref_lengths == IF pair # 0 THEN ifd.tags[pair].data.val
                                ELSE Repeat(element_size_in_bytes(tag_info.datatype), count)
                 c == copy_tag_data(image, source, data.val, ref_lengths, ifd.size)
             IN  IF c.res = "panic" THEN SynthOutcome("panic", c.panic, image, ifd_record)
                 ELSE EmitTag(ifd, tag_num, "Long", count,
                              [kind |-> "Long", val |-> c.dest_offsets], c.image, ifd_record)

RECURSIVE CopyTags(_, _, _, _, _)
\* lines 377-502: the loop over ifd.tags.keys()
CopyTags(ifd, keys, image, ifd_record, source) ==
    IF keys = <<>> THEN SynthOutcome("ok", "", image, ifd_record)
    ELSE LET r == CopyTag(ifd, Head(keys), image, ifd_record, source)
         IN  IF r.res = "panic" THEN r
             ELSE CopyTags(ifd, Tail(keys), r.image, r.ifd_record, source)

\* lines 504-541 without the padding byte of lines 505-508
PlaceIfd_unaligned(ifd, image, ifd_record, ifd_pointer) ==
    LET tag_data_length == SlotSize(ifd.big_tiff)
        pos == Len(image)
        pos_bytes == IF tag_data_length = 4 THEN order_write_32(ifd.endian, pos)
                     ELSE order_write_64(ifd.endian, pos)
        temp == IF tag_data_length = 4 THEN order_write_32(ifd.endian, 0)
                ELSE order_write_64(ifd.endian, 0)
    IN  Overwrite(image, ifd_pointer, pos_bytes) \o ifd_record \o temp

\* lines 504-541: the directory is placed after the data, on a word boundary
PlaceIfd(ifd, image, ifd_record, ifd_pointer) ==
    LET tag_data_length == SlotSize(ifd.big_tiff)
        aligned == IF Len(image) % 2 = 1 THEN Append(image, 0) ELSE image
        pos == Len(aligned)
        pos_bytes == IF tag_data_length = 4 THEN order_write_32(ifd.endian, pos)
                     ELSE order_write_64(ifd.endian, pos)
        temp == IF tag_data_length = 4 THEN order_write_32(ifd.endian, 0)
                ELSE order_write_64(ifd.endian, 0)
    IN  Overwrite(aligned, ifd_pointer, pos_bytes) \o ifd_record \o temp

\* copy_ifd writing the entry count the source directory declared
copy_ifd_declared_count(image, ifd, ifd_pointer, source) ==
    LET count_field == IF ifd.big_tiff
                       THEN order_write_64(ifd.endian, ifd.tag_count)
                       ELSE order_write_16(ifd.endian, ifd.tag_count)
        r == CopyTags(ifd, MapKeys(ifd.tags), image, count_field, source)
    IN  IF r.res = "panic" THEN r
        ELSE SynthOutcome("ok", "", PlaceIfd(ifd, r.image, r.ifd_record, ifd_pointer), <<>>)

copy_ifd(image, ifd, ifd_pointer, source) ==
    LET count_field == IF ifd.big_tiff
                       THEN order_write_64(ifd.endian, Cardinality(DOMAIN ifd.tags))
                       ELSE order_write_16(ifd.endian, Cardinality(DOMAIN ifd.tags))
        r == CopyTags(ifd, MapKeys(ifd.tags), image, count_field, source)
    IN  IF r.res = "panic" THEN r
        ELSE SynthOutcome("ok", "", PlaceIfd(ifd, r.image, r.ifd_record, ifd_pointer), <<>>)

(***************************************************************************)
(* tiff.rs: get_layers, the body of its loop (lines 310-350).              *)
(***************************************************************************)
LayerHeader_mark_by_endian(endian, big_tiff) ==
    LET mark == IF endian = "Big" THEN <<77, 77>> ELSE <<73, 73>>
    IN  IF big_tiff THEN
            mark \o order_write_16(endian, 43) \o order_write_16(endian, 8)
                \o order_write_16(endian, 0) \o order_write_64(endian, 0)
        ELSE mark \o order_write_16(endian, 42) \o order_write_32(endian, 0)

\* lines 316-335: the byte-order mark is chosen by the variant
LayerHeader(endian, big_tiff) ==
    IF big_tiff THEN
        <<77, 77>> \o order_write_16(endian, 43) \o order_write_16(endian, 8)
            \o order_write_16(endian, 0) \o order_write_64(endian, 0)
    ELSE <<73, 73>> \o order_write_16(endian, 42) \o order_write_32(endian, 0)

\* line 350: layers.push(image), with the image put first instead of last
LayersPush_front(layers, image) == <<image>> \o layers

\* line 350: layers.push(image)
LayersPush(layers, image) == Append(layers, image)

\* the image get_layers builds for one directory
get_layer(ifd, source) ==
    LET header == LayerHeader(ifd.endian, ifd.big_tiff)
        ifd_pointer == IF ifd.big_tiff THEN Len(header) - 8 ELSE Len(header) - 4
    IN  copy_ifd(header, ifd, ifd_pointer, source)

(***************************************************************************)
(* Input files.  The files the model decodes are built here, byte by byte, *)
(* from a description of what they hold: the description is what a claim   *)
(* compares the decoder's result with.  The builder has its own integer    *)
(* encoder and shares nothing with the code modelled above.                *)
(*                                                                         *)
(* An entry description is [tag, type, count, val, ptr]: type is the TIFF  *)
(* type id, val the list of values (bytes for types 1 and 2, numbers for   *)
(* 3 and 4, <<numerator, denominator>> pairs for 5), ptr = -1 when the     *)
(* builder places the value (in the slot when it fits, else after the      *)
(* directory) and otherwise the offset to put in the slot as it is.        *)
(***************************************************************************)
Endians == {"Little", "Big"}

RECURSIVE FxLittle(_, _)
FxLittle(v, n) == IF n = 0 THEN <<>> ELSE <<v % 256>> \o FxLittle(v \div 256, n - 1)

FxInt(endian, v, n) ==
    IF endian = "Little" THEN FxLittle(v, n)
    ELSE [i \in 1 .. n |-> FxLittle(v, n)[n + 1 - i]]

FxWidth(type) == CASE type \in {1, 2} -> 1 [] type = 3 -> 2 [] type = 4 -> 4 [] type = 5 -> 8

FxEnc(endian, type, val) ==
    CASE type \in {1, 2} -> val
      [] type = 3 -> Flatten([i \in 1 .. Len(val) |-> FxInt(endian, val[i], 2)])
      [] type = 4 -> Flatten([i \in 1 .. Len(val) |-> FxInt(endian, val[i], 4)])
      [] type = 5 -> Flatten([i \in 1 .. Len(val) |->
                        FxInt(endian, val[i][1], 4) \o FxInt(endian, val[i][2], 4)])

FxEntry(tag, type, count, val) == [tag |-> tag, type |-> type, count |-> count, val |-> val, ptr |-> -1]

FxEntryAt(tag, type, count, ptr) == [tag |-> tag, type |-> type, count |-> count, val |-> <<>>, ptr |-> ptr]

FxSlot(big) == IF big THEN 8 ELSE 4

FxCountField(big) == IF big THEN 8 ELSE 2

FxEntrySize(big) == IF big THEN 20 ELSE 12

FxHeaderLen(big) == IF big THEN 16 ELSE 8

FxHeader(endian, big, first) ==
    (IF endian = "Big" THEN <<77, 77>> ELSE <<73, 73>>)
        \o (IF big THEN FxInt(endian, 43, 2) \o FxInt(endian, 8, 2) \o FxInt(endian, 0, 2)
                            \o FxInt(endian, first, 8)
            ELSE FxInt(endian, 42, 2) \o FxInt(endian, first, 4))

\* the value of entry e lies outside its slot and is placed by the builder
FxOutOfLine(big, e) == e.ptr = -1 /\ e.count * FxWidth(e.type) > FxSlot(big)

\* length of the directory without the values placed after it
FxDirLen(big, es) == FxCountField(big) + Len(es) * FxEntrySize(big) + FxSlot(big)

RECURSIVE FxDataBefore(_, _, _)
\* total length of the out-of-line values of the first n entries
FxDataBefore(big, es, n) ==
    IF n = 0 THEN 0
    ELSE FxDataBefore(big, es, n - 1)
            + (IF FxOutOfLine(big, es[n]) THEN es[n].count * FxWidth(es[n].type) ELSE 0)

\* the directory at file offset off, followed by its out-of-line values
FxDir(endian, big, off, es, next) ==
    LET slot(i) ==
            IF es[i].ptr # -1 THEN FxInt(endian, es[i].ptr, FxSlot(big))
            ELSE IF FxOutOfLine(big, es[i])
                THEN FxInt(endian, off + FxDirLen(big, es) + FxDataBefore(big, es, i - 1), FxSlot(big))
            ELSE LET v == FxEnc(endian, es[i].type, es[i].val)
                 IN  v \o Repeat(0, FxSlot(big) - Len(v))
        entry(i) == FxInt(endian, es[i].tag, 2) \o FxInt(endian, es[i].type, 2)
                        \o FxInt(endian, es[i].count, FxSlot(big)) \o slot(i)
        data(i) == IF FxOutOfLine(big, es[i]) THEN FxEnc(endian, es[i].type, es[i].val) ELSE <<>>
    IN  FxInt(endian, Len(es), FxCountField(big))
            \o Flatten([i \in 1 .. Len(es) |-> entry(i)])
            \o FxInt(endian, next, FxSlot(big))
            \o Flatten([i \in 1 .. Len(es) |-> data(i)])

FxBlockLen(big, es) == FxDirLen(big, es) + FxDataBefore(big, es, Len(es))

\* what the decoder is to make of an entry the builder placed
FxTypeName(type) ==
    CASE type = 1 -> "Byte" [] type = 2 -> "Ascii" [] type = 3 -> "Short"
      [] type = 4 -> "Long" [] type = 5 -> "Rational"

NoStrips == [offs |-> <<>>, lens |-> <<>>]

\* the description of one input: entry is the public function called on it
\* ("read_tiff", or "read_ifd" at offset first with an Info of the caller's)
Fixture(kind, bytes, endian, big, entry, first, tags, order, cyclic, strips) ==
    [kind |-> kind, bytes |-> bytes, endian |-> endian, big |-> big, entry |-> entry,
     first |-> first, tags |-> tags, order |-> order, cyclic |-> cyclic, strips |-> strips]

(***************************************************************************)
(* Family "magic": every 4-byte prefix over a small alphabet, followed by  *)
(* the rest of a well-formed file of the layout the prefix announces.      *)
(***************************************************************************)
E256 == FxEntry(256, 4, 1, <<42>>)

E257 == FxEntry(257, 3, 2, <<7, 300>>)

E258 == FxEntry(258, 1, 3, <<1, 2, 3>>)

E259 == FxEntry(259, 3, 1, <<5>>)

E270 == FxEntry(270, 2, 3, <<97, 98, 0>>)

MagicPrefixes == {<<a, b, c, d>> : a \in {73, 77}, b \in {73, 77}, c \in {0, 42, 43}, d \in {0, 42, 43}}

MagicFixture(prefix) ==
    LET endian == IF prefix[1] = 77 /\ prefix[2] = 77 THEN "Big" ELSE "Little"
        big == prefix[3] = 43 \/ prefix[4] = 43
        first == FxHeaderLen(big)
        header == FxHeader(endian, big, first)
    IN  Fixture("magic",
                prefix \o SubSeq(header, 5, Len(header)) \o FxDir(endian, big, first, <<E256>>, 0),
                endian, big, "read_tiff", first, <<E256>>, <<first>>, FALSE, NoStrips)

(***************************************************************************)
(* Family "single": one directory of inline entries right after the        *)
(* header, next-directory pointer 0.  The classic files go to read_tiff;   *)
(* the big ones to read_ifd, with the Info of a big file.                  *)
(***************************************************************************)
InlineCatalog == {E256, E257, E258, E259, E270}

InlineLists ==
    {<<>>} \cup {<<e>> : e \in InlineCatalog}
        \cup {p \in {<<e, f>> : e \in InlineCatalog, f \in InlineCatalog} : p[1] # p[2]}
        \cup {<<E256, E258, E270>>}

SingleFixture(endian, big, es) ==
    LET first == FxHeaderLen(big)
    IN  Fixture("single",
                FxHeader(endian, big, first) \o FxDir(endian, big, first, es, 0),
                endian, big, IF big THEN "read_ifd" ELSE "read_tiff", first, es, <<first>>,
                FALSE, NoStrips)

(***************************************************************************)
(* Family "nested": classic files whose directories sit at a fixed stride. *)
(* A layout gives, for each directory, the directories its tag 330 lists   *)
(* and the directory its next pointer names: 0 is no directory, -1 an      *)
(* offset below the header, -2 an offset past the end of the file.         *)
(***************************************************************************)
Stride == 40

Dir(subs, next) == [subs |-> subs, next |-> next]

Leaf == Dir(<<>>, 0)

\* [dirs, cyclic]: cyclic when a directory is reachable from itself
Layouts ==
    { [dirs |-> <<Dir(<<2, 3>>, 0), Leaf, Leaf>>, cyclic |-> FALSE],
      [dirs |-> <<Dir(<<3, 2>>, 0), Leaf, Leaf>>, cyclic |-> FALSE],
      [dirs |-> <<Dir(<<2>>, 0), Dir(<<3>>, 0), Leaf>>, cyclic |-> FALSE],
      [dirs |-> <<Dir(<<2, 3>>, 0), Leaf, Dir(<<>>, 4), Leaf>>, cyclic |-> FALSE],
      [dirs |-> <<Dir(<<2>>, 3), Leaf, Leaf>>, cyclic |-> FALSE],
      [dirs |-> <<Dir(<<>>, 2), Dir(<<>>, 3), Leaf>>, cyclic |-> FALSE],
      [dirs |-> <<Dir(<<2, 2>>, 0), Leaf>>, cyclic |-> FALSE],
      [dirs |-> <<Dir(<<0, 2>>, 0), Leaf>>, cyclic |-> FALSE],
      [dirs |-> <<Dir(<<2, 3>>, 0), Dir(<<4>>, 0), Leaf, Leaf>>, cyclic |-> FALSE],
      [dirs |-> <<Dir(<<2>>, 3), Leaf, Dir(<<4>>, 0), Leaf>>, cyclic |-> FALSE],
      [dirs |-> <<Dir(<<>>, 1)>>, cyclic |-> TRUE],
      [dirs |-> <<Dir(<<1>>, 0)>>, cyclic |-> TRUE],
      [dirs |-> <<Dir(<<2>>, 0), Dir(<<1>>, 0)>>, cyclic |-> TRUE],
      [dirs |-> <<Dir(<<>>, 2), Dir(<<>>, 1)>>, cyclic |-> TRUE],
      [dirs |-> <<Dir(<<2>>, 0), Dir(<<>>, 2)>>, cyclic |-> TRUE],
      [dirs |-> <<Dir(<<>>, -1)>>, cyclic |-> FALSE],
      [dirs |-> <<Dir(<<>>, -2)>>, cyclic |-> FALSE],
      [dirs |-> <<Dir(<<>>, 2), Dir(<<>>, -2)>>, cyclic |-> FALSE],
      [dirs |-> <<Dir(<<2>>, 0), Dir(<<>>, -2)>>, cyclic |-> FALSE],
      [dirs |-> <<Dir(<<-2>>, 0)>>, cyclic |-> FALSE],
      [dirs |-> <<Dir(<<-1, 2>>, 0), Leaf>>, cyclic |-> FALSE] }

DirOffset(t, n) ==
    IF t = 0 THEN 0
    ELSE IF t = -1 THEN 3
    ELSE IF t = -2 THEN 8 + Stride * n + 50
    ELSE 8 + Stride * (t - 1)

NestedEntries(dirs, i) ==
    LET n == Len(dirs)
        subs == dirs[i].subs
    IN  <<FxEntry(256, 4, 1, <<i>>)>>
            \o (IF subs = <<>> THEN <<>>
                ELSE <<FxEntry(330, 4, Len(subs), [k \in 1 .. Len(subs) |-> DirOffset(subs[k], n)])>>)

RECURSIVE PostOrder(_, _, _)
\* the order the data model asks for: from directory d on, each directory
\* after the chains its tag 330 lists, the chain of d in chain order
PostOrder(dirs, d, fuel) ==
    IF d < 1 \/ fuel = 0 THEN <<>>
    ELSE LET subs == dirs[d].subs
         IN  Flatten([k \in 1 .. Len(subs) |-> PostOrder(dirs, subs[k], fuel - 1)])
                \o <<DirOffset(d, Len(dirs))>>
                \o PostOrder(dirs, dirs[d].next, fuel - 1)

\* no pointer of the layout names an offset outside the file
InBounds(dirs) ==
    \A i \in 1 .. Len(dirs) :
        dirs[i].next >= 0 /\ \A k \in 1 .. Len(dirs[i].subs) : dirs[i].subs[k] >= 0

NestedFixture(endian, layout) ==
    LET dirs == layout.dirs
        n == Len(dirs)
        block(i) == LET b == FxDir(endian, FALSE, DirOffset(i, n), NestedEntries(dirs, i),
                                   DirOffset(dirs[i].next, n))
                    IN  b \o Repeat(0, Stride - Len(b))
    IN  Fixture("nested",
                FxHeader(endian, FALSE, 8) \o Flatten([i \in 1 .. n |-> block(i)]),
                endian, FALSE, "read_tiff", 8, NestedEntries(dirs, 1),
                IF layout.cyclic \/ ~InBounds(dirs) THEN <<>> ELSE PostOrder(dirs, 1, 8),
                layout.cyclic, NoStrips)

(***************************************************************************)
(* Family "badfirst": a classic file whose first-directory pointer names   *)
(* no directory of the file.                                               *)
(***************************************************************************)
BadFirstFixture(endian, first) ==
    Fixture("badfirst",
            FxHeader(endian, FALSE, first) \o FxDir(endian, FALSE, 8, <<E256>>, 0),
            endian, FALSE, "read_tiff", first, <<>>, <<>>, FALSE, NoStrips)

(***************************************************************************)
(* Family "badspan": a classic file of two directories; the first holds,   *)
(* between two inline tags, a Short tag of 3 elements whose slot points    *)
(* at ptr.                                                                 *)
(***************************************************************************)
BadSpanFixture(endian, ptr) ==
    LET es == <<E256, FxEntryAt(320, 3, 3, ptr), FxEntry(340, 4, 1, <<9>>)>>
        second == 8 + FxBlockLen(FALSE, es)
    IN  Fixture("badspan",
                FxHeader(endian, FALSE, 8) \o FxDir(endian, FALSE, 8, es, second)
                    \o FxDir(endian, FALSE, second, <<E257>>, 0),
                endian, FALSE, "read_tiff", 8, es, <<8, second>>, FALSE, NoStrips)

(***************************************************************************)
(* Family "strips": one directory with StripOffsets (273) and              *)
(* StripByteCounts (279) naming two ranges of the file, which follow the   *)
(* directory.  pre: an out-of-line tag of odd length precedes tag 273;     *)
(* swapped: the first strip lies after the second in the file.             *)
(***************************************************************************)
StripLens == {<<1, 2>>, <<2, 1>>, <<3, 3>>, <<2, 3>>}

StripA == <<161, 162, 163>>

StripB == <<177, 178, 179>>

StripEntries(pre, offs, lens) ==
    <<E256>> \o (IF pre THEN <<FxEntry(270, 2, 9, <<97, 98, 99, 100, 101, 102, 103, 104, 0>>)>>
                 ELSE <<>>)
        \o <<FxEntry(273, 4, 2, offs), FxEntry(279, 4, 2, lens)>>

StripFixture(endian, big, pre, swapped, lens) ==
    LET first == FxHeaderLen(big)
        base == first + FxBlockLen(big, StripEntries(pre, <<0, 0>>, lens))
        offs == IF swapped THEN <<base + lens[2], base>> ELSE <<base, base + lens[1]>>
        a == SubSeq(StripA, 1, lens[1])
        b == SubSeq(StripB, 1, lens[2])
        es == StripEntries(pre, offs, lens)
    IN  Fixture("strips",
                FxHeader(endian, big, first) \o FxDir(endian, big, first, es, 0)
                    \o (IF swapped THEN b \o a ELSE a \o b),
                endian, big, IF big THEN "read_ifd" ELSE "read_tiff", first, es, <<first>>,
                FALSE, [offs |-> offs, lens |-> lens])

(***************************************************************************)
(* Family "entry": one directory holding one entry of a given type and     *)
(* count, its value in the slot when it fits and after the directory when  *)
(* it does not.                                                            *)
(***************************************************************************)
EntryCounts == {0, 1, 2, 3, 4, 5, 8, 9}

\* count values of the type, all different
EntryValues(type, count) ==
    [i \in 1 .. count |->
        CASE type = 1 -> 200 + i
          [] type = 2 -> 96 + i
          [] type = 3 -> 300 + i
          [] type = 4 -> 70000 + i
          [] type = 5 -> <<i, 3>>]

EntryFixture(endian, big, type, count) ==
    LET first == FxHeaderLen(big)
        es == <<FxEntry(256, type, count, EntryValues(type, count))>>
    IN  Fixture("entry",
                FxHeader(endian, big, first) \o FxDir(endian, big, first, es, 0),
                endian, big, IF big THEN "read_ifd" ELSE "read_tiff", first, es, <<first>>,
                FALSE, NoStrips)

(***************************************************************************)
(* Family "outofline": one directory with an inline tag and two tags whose *)
(* values do not fit the slot of either variant; the first of the two has  *)
(* an odd number of bytes.                                                 *)
(***************************************************************************)
OutOfLineEntries ==
    <<E256, FxEntry(269, 1, 9, <<11, 12, 13, 14, 15, 16, 17, 18, 19>>),
      FxEntry(270, 3, 5, <<301, 302, 303, 304, 305>>)>>

OutOfLineFixture(endian, big) ==
    LET first == FxHeaderLen(big)
    IN  Fixture("outofline",
                FxHeader(endian, big, first) \o FxDir(endian, big, first, OutOfLineEntries, 0),
                endian, big, IF big THEN "read_ifd" ELSE "read_tiff", first, OutOfLineEntries,
                <<first>>, FALSE, NoStrips)

(***************************************************************************)
(* Family "badtype": a classic file of two chained directories.  One of    *)
(* them holds, between two inline tags, an entry whose type id is none of  *)
(* 1..5; the other holds one inline tag.                                   *)
(***************************************************************************)
UnknownTypeIds == {0, 6, 7, 13, 65535}

BadTypeEntries(type) == <<E256, FxEntryAt(300, type, 1, 0), FxEntry(340, 4, 1, <<9>>)>>

BadTypeFixture(endian, type, badfirst) ==
    LET es1 == IF badfirst THEN BadTypeEntries(type) ELSE <<E257>>
        es2 == IF badfirst THEN <<E257>> ELSE BadTypeEntries(type)
        second == 8 + FxBlockLen(FALSE, es1)
    IN  Fixture("badtype",
                FxHeader(endian, FALSE, 8) \o FxDir(endian, FALSE, 8, es1, second)
                    \o FxDir(endian, FALSE, second, es2, 0),
                endian, FALSE, "read_tiff", 8, es1, <<8, second>>, FALSE, NoStrips)

(***************************************************************************)
(* Family "empty": a classic file whose first-directory pointer is 0; a    *)
(* directory follows the header all the same.                              *)
(***************************************************************************)
EmptyFixture(endian) ==
    Fixture("empty",
            FxHeader(endian, FALSE, 0) \o FxDir(endian, FALSE, 8, <<E256>>, 0),
            endian, FALSE, "read_tiff", 0, <<>>, <<>>, FALSE, NoStrips)

(***************************************************************************)
(* Family "offsize": a file with the magic of the big variant whose        *)
(* offset-size field (bytes 4-5) holds size instead of 8.                  *)
(***************************************************************************)
OffsetSizeFixture(endian, size) ==
    LET good == FxHeader(endian, TRUE, 16)
    IN  Fixture("offsize",
                SubSeq(good, 1, 4) \o FxInt(endian, size, 2) \o SubSeq(good, 7, 16)
                    \o FxDir(endian, TRUE, 16, <<E256>>, 0),
                endian, TRUE, "read_tiff", 16, <<E256>>, <<>>, FALSE, NoStrips)

(***************************************************************************)
(* Family "truncated": a well-formed classic file of one directory cut to  *)
(* its first len bytes, and the whole file with a directory that declares  *)
(* more entries than the file holds.                                       *)
(***************************************************************************)
WholeFile(endian) == FxHeader(endian, FALSE, 8) \o FxDir(endian, FALSE, 8, <<E256>>, 0)

CutLengths == {0, 3, 4, 6, 8, 9, 13, 14, 18, 22, 25}

TruncatedFixture(endian, len) ==
    Fixture("truncated", SubSeq(WholeFile(endian), 1, len),
            endian, FALSE, "read_tiff", 8, <<E256>>, <<>>, FALSE, NoStrips)

OverCountFixture(endian, declared) ==
    LET whole == WholeFile(endian)
    IN  Fixture("truncated",
                SubSeq(whole, 1, 8) \o FxInt(endian, declared, 2) \o SubSeq(whole, 11, Len(whole)),
                endian, FALSE, "read_tiff", 8, <<E256>>, <<>>, FALSE, NoStrips)

(***************************************************************************)
(* Family "dup": one directory in which a tag id occurs more than once.    *)
(***************************************************************************)
DupLists ==
    { <<E256, FxEntry(256, 3, 1, <<5>>)>>,
      <<E256, E257, FxEntry(256, 3, 2, <<5, 6>>)>>,
      <<FxEntry(256, 1, 2, <<1, 2>>), FxEntry(256, 3, 1, <<5>>), E256>>,
      <<E257, E256, E256, FxEntry(257, 4, 1, <<9>>)>>,
      <<FxEntry(256, 4, 3, <<1, 2, 3>>), E258, FxEntry(256, 3, 1, <<5>>)>>,
      <<E256, FxEntry(256, 3, 5, <<1, 2, 3, 4, 5>>)>> }

DupFixture(endian, big, es) ==
    LET first == FxHeaderLen(big)
    IN  Fixture("dup",
                FxHeader(endian, big, first) \o FxDir(endian, big, first, es, 0),
                endian, big, IF big THEN "read_ifd" ELSE "read_tiff", first, es, <<first>>,
                FALSE, NoStrips)

(***************************************************************************)
(* Family "unpaired": a classic file of two directories.  One of them has  *)
(* a StripOffsets tag (273) that copy_ifd cannot pair: its StripByteCounts *)
(* (279) is missing ("missing"), tag 273 is stored as Short ("offsets      *)
(* short"), or tag 279 is stored as Short ("counts short").  The other     *)
(* directory holds tag 257 alone.  badfirst: the unpaired directory is the *)
(* first of the chain.                                                     *)
(***************************************************************************)
UnpairedDefects == {"missing", "offsets short", "counts short"}

UnpairedEntries(defect) ==
    CASE defect = "missing" -> <<E256, FxEntry(273, 4, 1, <<8>>)>>
      [] defect = "offsets short" ->
            <<E256, FxEntry(273, 3, 1, <<8>>), FxEntry(279, 4, 1, <<2>>)>>
      [] defect = "counts short" ->
            <<E256, FxEntry(273, 4, 1, <<8>>), FxEntry(279, 3, 1, <<2>>)>>

UnpairedFixture(endian, defect, badfirst) ==
    LET es1 == IF badfirst THEN UnpairedEntries(defect) ELSE <<E257>>
        es2 == IF badfirst THEN <<E257>> ELSE UnpairedEntries(defect)
        second == 8 + FxBlockLen(FALSE, es1)
    IN  Fixture("unpaired",
                FxHeader(endian, FALSE, 8) \o FxDir(endian, FALSE, 8, es1, second)
                    \o FxDir(endian, FALSE, second, es2, 0),
                endian, FALSE, "read_tiff", 8, es1, <<8, second>>, FALSE, NoStrips)

Inputs ==
    {MagicFixture(p) : p \in MagicPrefixes}
        \cup {SingleFixture(e, big, es) : e \in Endians, big \in BOOLEAN, es \in InlineLists}
        \cup {NestedFixture(e, l) : e \in Endians, l \in Layouts}
        \cup {BadFirstFixture(e, f) : e \in Endians, f \in {3, 7, 300}}
        \cup {BadSpanFixture(e, ptr) : e \in Endians, ptr \in {2, 58, 64, 300}}
        \cup {StripFixture(e, big, pre, sw, lens) :
                e \in Endians, big \in BOOLEAN, pre \in BOOLEAN, sw \in BOOLEAN, lens \in StripLens}
        \cup {EntryFixture(e, big, type, count) :
                e \in Endians, big \in BOOLEAN, type \in 1 .. 5, count \in EntryCounts}
        \cup {OffsetSizeFixture(e, size) : e \in Endians, size \in {0, 4, 16}}
        \cup {OutOfLineFixture(e, big) : e \in Endians, big \in BOOLEAN}
        \cup {BadTypeFixture(e, type, bf) : e \in Endians, type \in UnknownTypeIds, bf \in BOOLEAN}
        \cup {EmptyFixture(e) : e \in Endians}
        \cup {TruncatedFixture(e, len) : e \in Endians, len \in CutLengths}
        \cup {OverCountFixture(e, declared) : e \in Endians, declared \in {2, 3}}
        \cup {DupFixture(e, big, es) : e \in Endians, big \in BOOLEAN, es \in DupLists}
        \cup {UnpairedFixture(e, defect, bf) :
                e \in Endians, defect \in UnpairedDefects, bf \in BOOLEAN}

(***************************************************************************)
(* The state machine.                                                      *)
(*   src      the input of the run and the public function called on it    *)
(*   phase    "input": nothing called yet; "decode": read_tiff or read_ifd *)
(*            was called (w.pc tells how far it is); "layers": get_layers  *)
(*            is running; "layers_done": it returned Ok(layers);           *)
(*            "layers_panic": it panicked; "reparsed": the caller decoded  *)
(*            every layer with read_tiff                                   *)
(*   w        the walk state of the decode                                 *)
(*   layers   the images get_layers has pushed                             *)
(*   reparsed the result of read_tiff on each layer                        *)
(*   co       a call of check_offset and what it returned                  *)
(***************************************************************************)
VARIABLES src, phase, w, layers, reparsed, co, dc, ct, gl

vars == <<src, phase, w, layers, reparsed, co, dc, ct, gl>>

NoWalk == [file |-> <<>>, info |-> NoInfo, mode |-> "read_tiff", pc |-> "idle", panic |-> "",
           err |-> "", next_ifd |-> 0, stack |-> <<>>, ifd_list |-> <<>>, log |-> {}]

NoCall == [source_length |-> 0, offset |-> 0, length |-> 0, result |-> "none"]

\* no Data value has been converted
NoData == [v |-> [kind |-> "Byte", val |-> <<>>], endian |-> "Little", raw |-> <<>>,
           back |-> [kind |-> "Byte", val |-> <<>>], step |-> "none"]

NoSrc == Fixture("none", <<>>, "Little", FALSE, "none", 0, <<>>, <<>>, FALSE, NoStrips)

\* no call of copy_tag_data made or in preparation
NoCopy == [image |-> <<>>, source |-> <<>>, offsets |-> <<>>, lengths |-> <<>>,
           res |-> "none", out |-> <<>>, dest_offsets |-> <<>>]

\* no call of get_layers on a list of the caller's choice
NoLayers == [source |-> <<>>, ifds |-> <<>>, layers |-> <<>>, res |-> <<>>]

Init ==
    /\ src \in Inputs
    /\ phase = "input"
    /\ w = NoWalk
    /\ layers = <<>>
    /\ reparsed = <<>>
    /\ co = NoCall
    /\ dc = NoData
    /\ ct = NoCopy
    /\ gl = NoLayers

\* the Info a caller of read_ifd holds for a file of the variant of src
CallerInfo ==
    [endian |-> src.endian, big_tiff |-> src.big, first_ifd |-> src.first,
     header |-> SubSeq(src.bytes, 1, 4), size |-> Len(src.bytes)]

\* read_tiff(file) is called: the header is read (lines 30-79)
CallReadTiff ==
    /\ phase = "input"
    /\ src.entry = "read_tiff"
    /\ w' = read_tiff_start(src.bytes)
    /\ phase' = "decode"
    /\ UNCHANGED <<src, layers, reparsed, co, dc, ct, gl>>

\* read_ifd(file, info, first, ifd_list) is called on its own
CallLoneReadIfd ==
    /\ phase = "input"
    /\ src.entry = "read_ifd"
    /\ w' = read_ifd_start(src.bytes, CallerInfo, src.first)
    /\ phase' = "decode"
    /\ UNCHANGED <<src, layers, reparsed, co, dc, ct, gl>>

\* one step of the directory walk
Walk ==
    /\ phase = "decode"
    /\ w.pc = "walk"
    /\ w' = WalkStep(w)
    /\ UNCHANGED <<src, phase, layers, reparsed, co, dc, ct, gl>>

\* get_layers(ifds, source): one turn of its loop (lines 309-351)
SynthesizeLayer ==
    /\ phase \in {"decode", "layers"}
    /\ w.pc = "done"
    /\ Len(layers) < Len(w.ifd_list)
    /\ LET r == get_layer(w.ifd_list[Len(layers) + 1], w.file)
       IN  IF r.res = "panic"
           THEN phase' = "layers_panic" /\ layers' = layers
           ELSE phase' = "layers" /\ layers' = LayersPush(layers, r.image)
    /\ UNCHANGED <<src, w, reparsed, co, dc, ct, gl>>

\* get_layers returns Ok(layers) (line 352)
GetLayersReturn ==
    /\ phase \in {"decode", "layers"}
    /\ w.pc = "done"
    /\ Len(layers) = Len(w.ifd_list)
    /\ phase' = "layers_done"
    /\ UNCHANGED <<src, w, layers, reparsed, co, dc, ct, gl>>

\* every layer is decoded again with read_tiff
Reparse ==
    /\ phase = "layers_done"
    /\ reparsed' = [i \in 1 .. Len(layers) |-> RunWalk(read_tiff_start(layers[i]), MaxRunSteps)]
    /\ phase' = "reparsed"
    /\ UNCHANGED <<src, w, layers, co, dc, ct, gl>>

Next ==
    \/ CallReadTiff
    \/ CallLoneReadIfd
    \/ Walk
    \/ SynthesizeLayer
    \/ GetLayersReturn
    \/ Reparse

Spec == Init /\ [][Next]_vars

\* the walk has a step to take
WalkEnabled == phase = "decode" /\ w.pc = "walk"

\* read_tiff is one sequential call: once called it runs on, so the call is
\* made and a walk that has a step to take takes it.  The second conjunct is
\* weak fairness of Walk, with WalkEnabled for ENABLED <<Walk>>_vars.
FairSpec ==
    /\ Spec
    /\ WF_vars(CallReadTiff \/ CallLoneReadIfd)
    /\ ([]<>~WalkEnabled \/ []<><<Walk>>_vars)

(***************************************************************************)
(* check_offset called on its own, over the corners of its domain.         *)
(***************************************************************************)
CoValues == {0, 7, 8, 9, 100, UsizeMod - 9, UsizeMod - 1}

InitCO ==
    /\ src = NoSrc
    /\ phase = "input"
    /\ w = NoWalk
    /\ layers = <<>>
    /\ reparsed = <<>>
    /\ co = NoCall
    /\ dc = NoData
    /\ ct = NoCopy
    /\ gl = NoLayers

CallCheckOffset ==
    /\ co.result = "none"
    /\ \E source_length \in CoValues, offset \in CoValues, length \in CoValues :
         \E result \in check_offset_outcomes(source_length, offset, length) :
            co' = [source_length |-> source_length, offset |-> offset, length |-> length,
                   result |-> result]
    /\ UNCHANGED <<src, phase, w, layers, reparsed, dc, ct, gl>>

NextCO == CallCheckOffset

SpecCO == InitCO /\ [][NextCO]_vars

(***************************************************************************)
(* Data::to_vec_u8 and Data::new called on their own: a value is written   *)
(* to bytes and the bytes are read back.  dc is [v, endian, raw, back,     *)
(* step]: the value, the byte order, v.to_vec_u8(endian), the Data read    *)
(* back, and how far the two calls have got.                               *)
(***************************************************************************)
\* sequences of at most two elements of S
UpToTwo(S) == {<<>>} \cup {<<a>> : a \in S} \cup {<<a, b>> : a \in S, b \in S}

\* the Data values converted: every variant, elements of one and of several
\* bytes, strings of 1- to 4-byte characters, fractions in and out of
\* lowest terms
DataValues ==
    {[kind |-> "Byte", val |-> s] : s \in UpToTwo({0, 127, 255})}
        \cup {[kind |-> "Ascii", val |-> s] : s \in UpToTwo({0, 97, 233, 8364, 128512})}
        \cup {[kind |-> "Short", val |-> s] : s \in UpToTwo({0, 258, 65535})}
        \cup {[kind |-> "Long", val |-> s] : s \in UpToTwo({0, 66051, 16909060})}
        \cup {[kind |-> "Rational", val |-> s] :
                s \in UpToTwo({<<Ratio(n, d), n, d>> : n \in {0, 3, 6}, d \in {1, 2}})}

\* the count a Tag holding v carries: the number of elements, and for Ascii
\* the number of bytes
ElementCount(v) == IF v.kind = "Ascii" THEN Len(Utf8Encode(v.val)) ELSE Len(v.val)

InitData ==
    /\ src = NoSrc
    /\ phase = "input"
    /\ w = NoWalk
    /\ layers = <<>>
    /\ reparsed = <<>>
    /\ co = NoCall
    /\ ct = NoCopy
    /\ gl = NoLayers
    /\ \E v \in DataValues, endian \in Endians :
            dc = [NoData EXCEPT !.v = v, !.endian = endian, !.step = "value"]

CallToVecU8 ==
    /\ dc.step = "value"
    /\ dc' = [dc EXCEPT !.raw = to_vec_u8(dc.v, dc.endian), !.step = "bytes"]
    /\ UNCHANGED <<src, phase, w, layers, reparsed, co, ct, gl>>

CallDataNew ==
    /\ dc.step = "bytes"
    /\ dc' = [dc EXCEPT !.back = DataNew(dc.raw, dc.v.kind, dc.endian, ElementCount(dc.v)),
                        !.step = "back"]
    /\ UNCHANGED <<src, phase, w, layers, reparsed, co, ct, gl>>

NextData == CallToVecU8 \/ CallDataNew

SpecData == InitData /\ [][NextData]_vars

(***************************************************************************)
(* copy_tag_data called on its own.  ct is [image, source, offsets,        *)
(* lengths, res, out, dest_offsets]: the image before the call, the source *)
(* and the two lists, then the outcome, the image after the call and the   *)
(* returned list.  The source length passed is the length of the source.   *)
(***************************************************************************)
\* a source of 16 bytes, all different
CopySource == [i \in 1 .. 16 |-> 100 + i]

\* (offset, length) pairs: in the header, in bounds, of no bytes, up to the
\* last byte, and past the end
CopyPairs == {<<4, 2>>, <<8, 2>>, <<10, 3>>, <<12, 0>>, <<14, 2>>, <<14, 3>>}

CopyLists ==
    {<<>>} \cup {<<a>> : a \in CopyPairs} \cup {<<a, b>> : a \in CopyPairs, b \in CopyPairs}
        \cup {<<a, <<4, 2>>, b>> : a \in {<<8, 2>>, <<14, 3>>}, b \in {<<10, 3>>, <<14, 2>>}}

CopyImages == {<<>>, <<1, 2, 3>>}

InitCopy ==
    /\ src = NoSrc
    /\ phase = "input"
    /\ w = NoWalk
    /\ layers = <<>>
    /\ reparsed = <<>>
    /\ co = NoCall
    /\ dc = NoData
    /\ gl = NoLayers
    /\ \E image \in CopyImages, pairs \in CopyLists :
            ct = [NoCopy EXCEPT !.image = image, !.source = CopySource,
                                !.offsets = [i \in 1 .. Len(pairs) |-> pairs[i][1]],
                                !.lengths = [i \in 1 .. Len(pairs) |-> pairs[i][2]],
                                !.res = "input"]

CallCopyTagData ==
    /\ ct.res = "input"
    /\ LET c == copy_tag_data(ct.image, ct.source, ct.offsets, ct.lengths, Len(ct.source))
       IN  ct' = [ct EXCEPT !.res = c.res, !.out = c.image, !.dest_offsets = c.dest_offsets]
    /\ UNCHANGED <<src, phase, w, layers, reparsed, co, dc, gl>>

NextCopy == CallCopyTagData

SpecCopy == InitCopy /\ [][NextCopy]_vars

(***************************************************************************)
(* get_layers called twice on the same source, on two lists made of the    *)
(* same directories.  gl is [source, ifds, layers, res]: the source, and   *)
(* for each call its list, the layers it has pushed and how far it is      *)
(* ("run", "ok", "panic").  The turns of the two loops interleave.         *)
(***************************************************************************)
\* lists of positions 1..n: one position, two positions, all in reverse
Orders(n) ==
    {<<i>> : i \in 1 .. n} \cup {<<i, j>> : i \in 1 .. n, j \in 1 .. n}
        \cup {[k \in 1 .. n |-> n + 1 - k]}

\* the files whose directories are synthesized twice
LayerInputs ==
    {NestedFixture(e, l) : e \in Endians, l \in Layouts}
        \cup {StripFixture(e, big, TRUE, sw, <<3, 3>>) :
                e \in Endians, big \in BOOLEAN, sw \in BOOLEAN}
        \cup {OutOfLineFixture(e, big) : e \in Endians, big \in BOOLEAN}

\* the directories read_tiff (or the caller's read_ifd) decodes from src
Decoded ==
    RunWalk(IF src.entry = "read_tiff" THEN read_tiff_start(src.bytes)
            ELSE read_ifd_start(src.bytes, CallerInfo, src.first), MaxRunSteps)

RECURSIVE LoopTurn_on_previous_image(_, _, _)
\* the n-th turn with `image` declared before the loop: the header and the
\* directory are appended to what the turns before left in it
LoopTurn_on_previous_image(ifds, n, source) ==
    LET ifd == ifds[n]
        header == LayerHeader(ifd.endian, ifd.big_tiff)
        before == IF n = 1 THEN SynthOutcome("ok", "", <<>>, <<>>)
                  ELSE LoopTurn_on_previous_image(ifds, n - 1, source)
        ifd_pointer == IF ifd.big_tiff THEN Len(header) - 8 ELSE Len(header) - 4
    IN  IF before.res = "panic" THEN before
        ELSE copy_ifd(before.image \o header, ifd, Len(before.image) + ifd_pointer, source)

\* lines 309-350: the n-th turn of `for ifd in ifds`, with its own new image
LoopTurn(ifds, n, source) == get_layer(ifds[n], source)

InitLayers ==
    /\ src \in LayerInputs
    /\ phase = "input"
    /\ w = NoWalk
    /\ layers = <<>>
    /\ reparsed = <<>>
    /\ co = NoCall
    /\ dc = NoData
    /\ ct = NoCopy
    /\ Decoded.pc = "done"
    /\ \E order \in Orders(Len(Decoded.ifd_list)) :
            gl = [source |-> src.bytes,
                  ifds |-> <<Decoded.ifd_list, [k \in 1 .. Len(order) |-> Decoded.ifd_list[order[k]]]>>,
                  layers |-> <<<<>>, <<>>>>,
                  res |-> <<"run", "run">>]

\* one turn of the loop of one of the two calls
SynthesizeIn ==
    \E c \in 1 .. 2 :
        /\ gl.res[c] = "run"
        /\ Len(gl.layers[c]) < Len(gl.ifds[c])
        /\ LET r == LoopTurn(gl.ifds[c], Len(gl.layers[c]) + 1, gl.source)
           IN  IF r.res = "panic" THEN gl' = [gl EXCEPT !.res[c] = "panic"]
               ELSE gl' = [gl EXCEPT !.layers[c] = LayersPush(@, r.image)]
        /\ UNCHANGED <<src, phase, w, layers, reparsed, co, dc, ct>>

\* one of the two calls returns Ok(layers) (line 352)
ReturnLayers ==
    \E c \in 1 .. 2 :
        /\ gl.res[c] = "run"
        /\ Len(gl.layers[c]) = Len(gl.ifds[c])
        /\ gl' = [gl EXCEPT !.res[c] = "ok"]
        /\ UNCHANGED <<src, phase, w, layers, reparsed, co, dc, ct>>

NextLayers == SynthesizeIn \/ ReturnLayers

SpecLayers == InitLayers /\ [][NextLayers]_vars

(***************************************************************************)
(* The claims.                                                             *)
(***************************************************************************)
Decoding == phase # "input"

Prefix == SubSeq(src.bytes, 1, 4)

Offsets(ifd_list) == [i \in 1 .. Len(ifd_list) |-> ifd_list[i].offset]

\* C1: for the four recognized magic sequences read_tiff gets as far as an
\* Info whose endian is Big exactly for "MM" and whose big_tiff is true
\* exactly for version 0x2B; for every other prefix it returns the
\* invalid-header error and no directory list.
C1_HeaderRecognition ==
    (Decoding /\ src.kind = "magic") =>
        IF Prefix \in Magics THEN
            /\ w.pc \in {"walk", "done"}
            /\ w.info.endian = (IF Prefix[1] = 77 THEN "Big" ELSE "Little")
            /\ w.info.big_tiff = (43 \in {Prefix[3], Prefix[4]})
        ELSE w.pc = "err" /\ w.err = "The header is not valid" /\ w.ifd_list = <<>>

\* the tags of directory ifd are the entries es, each decoded by its type
HoldsEntries(ifd, es) ==
    /\ DOMAIN ifd.tags = {es[i].tag : i \in 1 .. Len(es)}
    /\ \A i \in 1 .. Len(es) :
        LET t == ifd.tags[es[i].tag]
        IN  /\ t.datatype = FxTypeName(es[i].type)
            /\ t.count = es[i].count
            /\ t.data = [kind |-> FxTypeName(es[i].type), val |-> es[i].val]

WellFormedClassicLittle == src.kind = "single" /\ src.endian = "Little" /\ ~src.big

\* C2: a well-formed classic little-endian file with one directory of inline
\* tags at offset 8 and next pointer 0 is decoded without an error, to
\* Info{Little, classic, first_ifd 8, size = file length} and a list of exactly
\* one Ifd whose map holds each entry's id with the value decoded by its type.
C2_WellFormedClassicLittle ==
    (Decoding /\ WellFormedClassicLittle) =>
        /\ w.pc \in {"walk", "done"}
        /\ w.info = [endian |-> "Little", big_tiff |-> FALSE, first_ifd |-> 8,
                     header |-> <<73, 73, 42, 0>>, size |-> Len(src.bytes)]
        /\ w.pc = "done" =>
            /\ Len(w.ifd_list) = 1
            /\ HoldsEntries(w.ifd_list[1], src.tags)

C2_Witness ==
    /\ Decoding /\ WellFormedClassicLittle /\ w.pc = "done"
    /\ src.tags = <<E256>>
    /\ w.ifd_list[1].tags[256].data = [kind |-> "Long", val |-> <<42>>]

\* C3: check_offset returns false when offset < 8, false when the sum
\* offset + length (as a number, not as a usize) exceeds file_length, and true
\* in every other case.
C3_CheckOffset ==
    co.result # "none" =>
        co.result = (IF co.offset < 8 \/ co.offset + co.length > co.source_length
                     THEN "false" ELSE "true")

\* the directories at offs, in this order, lie among the first hi of list
RECURSIVE EmbedsBefore(_, _, _)
EmbedsBefore(list, hi, offs) ==
    IF offs = <<>> THEN TRUE
    ELSE LET last == offs[Len(offs)]
             front == SubSeq(offs, 1, Len(offs) - 1)
         IN  IF last = 0 THEN EmbedsBefore(list, hi, front)
             ELSE \E j \in 1 .. hi : list[j].offset = last /\ EmbedsBefore(list, j - 1, front)

\* C4: in the list read_tiff returns, the directories a tag 330 lists come
\* before the directory that holds the tag, in the order of the tag's value,
\* and the whole list is the depth-first, children-before-parent order of
\* the file.
C4_ChildrenBeforeParent ==
    (Decoding /\ w.mode = "read_tiff" /\ w.pc = "done") =>
        /\ \A p \in 1 .. Len(w.ifd_list) :
              LET tags == w.ifd_list[p].tags
              IN  (330 \in DOMAIN tags /\ tags[330].data.kind = "Long") =>
                      EmbedsBefore(w.ifd_list, p - 1, tags[330].data.val)
        /\ src.kind = "nested" => Offsets(w.ifd_list) = src.order

C4_Witness ==
    /\ Decoding /\ src.kind = "nested" /\ w.pc = "done"
    /\ Offsets(w.ifd_list) = <<128, 48, 88, 8>>
    /\ w.ifd_list[4].tags[330].data.val = <<48, 88>>
    /\ w.ifd_list[2].tags[330].data.val = <<128>>

\* C5: a directory offset of the top-level chain that fails the offset
\* validator ends the chain; read_tiff does not crash on it.
C5_BadDirectoryOffsetEndsChain ==
    (Decoding /\ src.kind = "badfirst" /\ w.mode = "read_tiff") =>
        /\ w.pc \in {"walk", "done"}
        /\ w.pc = "done" => w.ifd_list = <<>>

\* C6: a tag whose span fails the offset validator is logged and nothing
\* more: the decode goes on, and the other tags and directories of the file
\* are decoded and returned.
C6_BadSpanIsOnlyLogged ==
    (Decoding /\ src.kind = "badspan") =>
        /\ w.pc \in {"walk", "done"}
        /\ w.pc = "done" =>
            /\ Offsets(w.ifd_list) = src.order
            /\ w.ifd_list[1].tags[256].data = [kind |-> "Long", val |-> <<42>>]
            /\ w.ifd_list[1].tags[340].data = [kind |-> "Long", val |-> <<9>>]
            /\ HoldsEntries(w.ifd_list[2], <<E257>>)

\* C7: read_tiff comes to an end on every input: it returns or it panics.
C7_Terminates == <>(w.pc \in {"done", "err", "panic"})

LayerMark(endian) == IF endian = "Big" THEN <<77, 77>> ELSE <<73, 73>>

\* C8: the header of every layer has the byte-order mark of its directory's
\* endianness, then the version of the directory's variant in that byte order.
C8_LayerHeaderMatchesDirectory ==
    \A i \in 1 .. Len(layers) :
        LET ifd == w.ifd_list[i]
        IN  /\ SubSeq(layers[i], 1, 2) = LayerMark(ifd.endian)
            /\ SubSeq(layers[i], 3, 4) = FxInt(ifd.endian, IF ifd.big_tiff THEN 43 ELSE 42, 2)

\* ids, types and decoded values of the tags of a directory
TagValues(ifd) ==
    [t \in DOMAIN ifd.tags |->
        [datatype |-> ifd.tags[t].datatype, count |-> ifd.tags[t].count, data |-> ifd.tags[t].data]]

\* C9: read_tiff on the layer of a directory of inline tags, none of them a
\* pointer tag, returns exactly one directory with the tag ids, types and
\* decoded values of the source directory.
C9_RoundTrip ==
    (phase = "reparsed" /\ src.kind = "single") =>
        \A i \in 1 .. Len(layers) :
            /\ reparsed[i].pc = "done"
            /\ Len(reparsed[i].ifd_list) = 1
            /\ TagValues(reparsed[i].ifd_list[1]) = TagValues(w.ifd_list[i])

\* the directory of a layer, read by read_ifd in the byte order and variant
\* of the directory the layer was made from
LayerWalk(layer, ifd) ==
    LET at == IF ifd.big_tiff THEN 8 ELSE 4
        ps == IF ifd.big_tiff THEN 8 ELSE 4
        first == BigEndianRead(IF ifd.endian = "Big" THEN Slice(layer, at, at + ps)
                               ELSE Reverse(Slice(layer, at, at + ps)), ps)
        info == [endian |-> ifd.endian, big_tiff |-> ifd.big_tiff, first_ifd |-> first,
                 header |-> SubSeq(layer, 1, 4), size |-> Len(layer)]
    IN  RunWalk(read_ifd_start(layer, info, first), MaxRunSteps)

\* C10: for StripOffsets/StripByteCounts naming two in-bounds ranges of the
\* source, tag 273 of the layer is of type Long with two values o1, o2 where
\* o2 = o1 + len1, both regions lie in the layer, and the layer's bytes at
\* them are the two source ranges, in order.
C10_StripRewrite ==
    (src.kind = "strips" /\ phase \in {"layers", "layers_done", "layers_panic", "reparsed"}) =>
        /\ phase # "layers_panic"
        /\ Len(layers) = 1
        /\ LET layer == layers[1]
               r == LayerWalk(layer, w.ifd_list[1])
               off == src.strips.offs
               len == src.strips.lens
           IN  /\ r.pc = "done" /\ Len(r.ifd_list) = 1
               /\ 273 \in DOMAIN r.ifd_list[1].tags
               /\ LET t == r.ifd_list[1].tags[273]
                      o1 == t.data.val[1]
                      o2 == t.data.val[2]
                  IN  /\ t.datatype = "Long" /\ t.data.kind = "Long" /\ Len(t.data.val) = 2
                      /\ o2 = o1 + len[1]
                      /\ o1 >= 0 /\ o2 + len[2] <= Len(layer)
                      /\ Slice(layer, o1, o1 + len[1]) \o Slice(layer, o2, o2 + len[2])
                            = Slice(src.bytes, off[1], off[1] + len[1])
                                \o Slice(src.bytes, off[2], off[2] + len[2])
                      /\ Slice(layer, o1, o1 + len[1]) = SubSeq(StripA, 1, len[1])
                      /\ Slice(layer, o2, o2 + len[2]) = SubSeq(StripB, 1, len[2])

C10_Witness ==
    /\ src.kind = "strips" /\ phase = "layers_done" /\ Len(layers) = 1
    /\ src.big /\ src.endian = "Big"
    /\ src.strips.offs[1] > src.strips.offs[2]
    /\ src.strips.lens = <<2, 3>>
    /\ 270 \in DOMAIN w.ifd_list[1].tags

\* where the header of a layer keeps its first-directory pointer, read in the
\* byte order and variant of the directory the layer was made from
LayerFirst(layer, ifd) ==
    LET at == IF ifd.big_tiff THEN 8 ELSE 4
        ps == IF ifd.big_tiff THEN 8 ELSE 4
    IN  BigEndianRead(IF ifd.endian = "Big" THEN Slice(layer, at, at + ps)
                      ELSE Reverse(Slice(layer, at, at + ps)), ps)

LayerInfo(layer, ifd) ==
    [endian |-> ifd.endian, big_tiff |-> ifd.big_tiff, first_ifd |-> LayerFirst(layer, ifd),
     header |-> SubSeq(layer, 1, 4), size |-> Len(layer)]

\* the entries of the directory of a layer, as read_ifd reads them
LayerEntries(layer, ifd) ==
    ReadIfdBody(layer, LayerInfo(layer, ifd), LayerFirst(layer, ifd))

\* the span [at, at + length) lies in the layer, after its header
InLayer(layer, ifd, at, length) ==
    at >= FxHeaderLen(ifd.big_tiff) /\ at + length <= Len(layer)

\* the value of tag t of the layer is a list of Longs
LayerLongs(layer, ifd, t) ==
    LET info == LayerInfo(layer, ifd)
        r == ResolveTag(layer, info, t, LayerEntries(layer, ifd).ifd.tags[t])
    IN  IF r.res = "ok" /\ r.tag_info.data.kind = "Long" THEN r.tag_info.data.val ELSE <<>>

\* every offset the layer of directory ifd stores names a span of the layer
OffsetsAreLocal(layer, ifd, with330) ==
    LET e == LayerEntries(layer, ifd)
        tags == e.ifd.tags
    IN  /\ InLayer(layer, ifd, LayerFirst(layer, ifd), FxDirLen(ifd.big_tiff, <<>>))
        /\ e.res = "some"
        /\ \A t \in DOMAIN tags :
            /\ tags[t].offset # None =>
                    InLayer(layer, ifd, tags[t].offset[1],
                            tags[t].count * element_size_in_bytes(tags[t].datatype))
            /\ (t \in PointerTags /\ ByteCountTag(t) \in DOMAIN tags) =>
                    LET offs == LayerLongs(layer, ifd, t)
                        lens == LayerLongs(layer, ifd, ByteCountTag(t))
                    IN  /\ Len(offs) = tags[t].count /\ Len(lens) = Len(offs)
                        /\ \A k \in 1 .. Len(offs) : InLayer(layer, ifd, offs[k], lens[k])
            /\ (with330 /\ t = 330) =>
                    LET subs == LayerLongs(layer, ifd, t)
                    IN  \A k \in 1 .. Len(subs) :
                            subs[k] # 0 =>
                                InLayer(layer, ifd, subs[k], FxDirLen(ifd.big_tiff, <<>>))

\* C11: every file offset a layer stores is an offset into the layer: the
\* first-directory pointer, the slot pointer of every out-of-line value, the
\* values of the pointer tags, and the directory offsets of a tag 330.
C11_LayerOffsetsAreLocal ==
    \A i \in 1 .. Len(layers) : OffsetsAreLocal(layers[i], w.ifd_list[i], TRUE)

\* C12: a directory whose pointer tag has no paired byte-count tag, or whose
\* pointer tag or byte-count tag is not Long, fails alone: get_layers does
\* not panic on it, it goes on to the other directories of the list.
C12_UnpairedFailsAlone ==
    src.kind = "unpaired" => phase # "layers_panic"

\* C13: when get_layers returns Ok on a list of n directories, it returns n
\* buffers and buffer i is the synthesis of directory i: it is the image
\* copy_ifd builds for that directory, and its entries are that directory's
\* tags.
C13_OneLayerPerDirectory ==
    phase \in {"layers_done", "reparsed"} =>
        /\ Len(layers) = Len(w.ifd_list)
        /\ \A i \in 1 .. Len(layers) :
            /\ layers[i] = get_layer(w.ifd_list[i], w.file).image
            /\ DOMAIN LayerEntries(layers[i], w.ifd_list[i]).ifd.tags = DOMAIN w.ifd_list[i].tags

C13_Witness ==
    /\ phase = "layers_done" /\ src.kind = "nested"
    /\ Len(layers) = 4 /\ Offsets(w.ifd_list) = <<128, 48, 88, 8>>
    /\ \A i \in 1 .. 4 : \A j \in 1 .. 4 : i # j => layers[i] # layers[j]

\* the tag ids of the entry records of a layer, in the order they lie in it
LayerTagIds(layer, ifd) ==
    LET first == LayerFirst(layer, ifd)
        cs == FxCountField(ifd.big_tiff)
        n == order_read(ifd.endian, Slice(layer, first, first + cs), cs)
        at(k) == first + cs + (k - 1) * FxEntrySize(ifd.big_tiff)
    IN  [k \in 1 .. n |-> order_read(ifd.endian, Slice(layer, at(k), at(k) + 2), 2)]

\* C14: the entry records of every layer are in strictly ascending order of
\* tag id, whatever the order of the entries in the source directory.
C14_EntriesAscending ==
    \A i \in 1 .. Len(layers) :
        LET ids == LayerTagIds(layers[i], w.ifd_list[i])
        IN  /\ {ids[k] : k \in 1 .. Len(ids)} = DOMAIN w.ifd_list[i].tags
            /\ \A k \in 1 .. Len(ids) - 1 : ids[k] < ids[k + 1]

C14_Witness ==
    /\ phase = "layers_done" /\ src.kind = "single"
    /\ src.tags = <<E270, E256>>
    /\ LayerTagIds(layers[1], w.ifd_list[1]) = <<256, 270>>

\* C15: the Tag read_ifd makes of an entry has offset Some(slot value) when
\* count x element size is larger than the slot (4 bytes classic, 8 big),
\* and None otherwise: a value of exactly the slot's width is inline.
C15_OffsetIffLargerThanSlot ==
    (Decoding /\ src.kind = "entry") =>
        /\ w.pc \in {"walk", "done"}
        /\ w.pc = "done" =>
            /\ Len(w.ifd_list) = 1
            /\ LET e == src.tags[1]
                   t == w.ifd_list[1].tags[e.tag]
               IN  /\ t.count = e.count
                   /\ t.datatype = FxTypeName(e.type)
                   /\ t.offset = IF e.count * FxWidth(e.type) > FxSlot(src.big)
                                 THEN Some(src.first + FxDirLen(src.big, src.tags))
                                 ELSE None

C15_Witness ==
    /\ Decoding /\ src.kind = "entry" /\ w.pc = "done"
    /\ src.big /\ src.tags[1].type = 1 /\ src.tags[1].count = 9
    /\ w.ifd_list[1].tags[256].offset = Some(16 + 8 + 20 + 8)

\* the numerator/denominator pairs of a Rational value
Pairs(val) == [i \in 1 .. Len(val) |-> <<val[i][2], val[i][3]>>]

\* C16: Data::new on the bytes v.to_vec_u8(endian) gives, with the type and
\* element count of v and the same byte order, v back: the same variant
\* with the same elements (for Rational: the same pairs).
C16_DataRoundTrip ==
    dc.step = "back" =>
        /\ dc.back.kind = dc.v.kind
        /\ IF dc.v.kind = "Rational" THEN Pairs(dc.back.val) = Pairs(dc.v.val)
           ELSE dc.back.val = dc.v.val

C16_Witness ==
    /\ dc.step = "back" /\ dc.endian = "Big"
    /\ dc.v = [kind |-> "Long", val |-> <<66051, 16909060>>]
    /\ dc.raw = <<0, 1, 2, 3, 1, 2, 3, 4>>
    /\ dc.back = dc.v

\* C17: on a file with the magic of the big variant whose offset-size field
\* is not 8, read_tiff returns the unsupported-offset-size error: it does
\* not panic and does not read the file as a classic one.
C17_UnsupportedOffsetSize ==
    (Decoding /\ src.kind = "offsize") =>
        w.pc = "err" /\ w.err = "Unexpected big tiff offset size"

\* the reads of the header, of the entry-count field, of an entry and of the
\* next-directory pointer that ran past the end of the input
UncheckedReads ==
    {"slice file[0..4]", "slice file[4..8]", "slice file[4..6]", "slice file[8..12]",
     "slice tag_count", "slice entry", "slice next_ifd"}

\* C18: on every input, read_tiff and read_ifd read the header fields, each
\* directory entry and the next-directory pointer only where the input has
\* bytes: none of these reads names an index at or beyond the input length.
C18_NoReadPastTheEnd ==
    Decoding => ~(w.pc = "panic" /\ w.panic \in UncheckedReads)

\* the position in the directory of the last entry that carries tag id `id`
LastEntryOf(es, id) ==
    CHOOSE k \in 1 .. Len(es) : es[k].tag = id /\ \A j \in k + 1 .. Len(es) : es[j].tag # id

\* the file offset of the value slot of the k-th entry of the directory at `first`
SlotPosition(big, first, k) ==
    first + FxCountField(big) + (k - 1) * FxEntrySize(big) + 4 + FxSlot(big)

\* C19: a directory whose entries repeat a tag id is decoded to the end, and
\* the map holds for each id one Tag, with the count, type, slot position
\* and resolved value of the last entry that carries the id.
C19_LastDuplicateWins ==
    (Decoding /\ src.kind = "dup") =>
        /\ w.pc \in {"walk", "done"}
        /\ w.pc = "done" =>
            /\ Len(w.ifd_list) = 1
            /\ DOMAIN w.ifd_list[1].tags = {src.tags[k].tag : k \in 1 .. Len(src.tags)}
            /\ \A id \in DOMAIN w.ifd_list[1].tags :
                LET k == LastEntryOf(src.tags, id)
                    e == src.tags[k]
                    t == w.ifd_list[1].tags[id]
                IN  /\ t.count = e.count
                    /\ t.datatype = FxTypeName(e.type)
                    /\ t.datapos = SlotPosition(src.big, src.first, k)
                    /\ t.data = [kind |-> FxTypeName(e.type), val |-> e.val]

C19_Witness ==
    /\ Decoding /\ src.kind = "dup" /\ w.pc = "done"
    /\ src.tags = <<FxEntry(256, 4, 3, <<1, 2, 3>>), E258, FxEntry(256, 3, 1, <<5>>)>>
    /\ ~src.big
    /\ w.ifd_list[1].tags[256].data = [kind |-> "Short", val |-> <<5>>]
    /\ w.ifd_list[1].tags[256].datapos = 8 + 2 + 2 * 12 + 8
    /\ w.ifd_list[1].tag_count = 3
    /\ "Duplicate tag" \in w.log

\* the directory of a layer: it starts where the header points, on an even
\* offset after the header, holds the entries of the directory's tags right
\* after its count field, and ends the layer with a zero next pointer
DirectoryClosesLayer(layer, ifd) ==
    LET first == LayerFirst(layer, ifd)
        d == LayerEntries(layer, ifd)
        cs == CountFieldSize(ifd.big_tiff)
        ps == SlotSize(ifd.big_tiff)
    IN  /\ first % 2 = 0
        /\ first >= FxHeaderLen(ifd.big_tiff)
        /\ d.res = "some"
        /\ d.ifd.tag_count = Cardinality(DOMAIN ifd.tags)
        /\ DOMAIN d.ifd.tags = DOMAIN ifd.tags
        /\ first + cs + d.ifd.tag_count * (4 + 2 * ps) + ps = Len(layer)
        /\ Slice(layer, Len(layer) - ps, Len(layer)) = Repeat(0, ps)
        /\ d.next_ifd = 0

\* C20: in every layer the first-directory pointer of the header is the
\* offset of the directory's entry-count field and is even, the entries
\* follow the count field, and the next pointer that ends the layer is zero.
C20_DirectoryPlacement ==
    \A i \in 1 .. Len(layers) : DirectoryClosesLayer(layers[i], w.ifd_list[i])

\* a classic layer whose 5-byte value leaves the data at an odd length: one
\* padding byte precedes the directory
C20_Witness ==
    /\ src.kind = "entry" /\ ~src.big /\ src.tags[1].type = 1 /\ src.tags[1].count = 5
    /\ Len(layers) = 1
    /\ LayerFirst(layers[1], w.ifd_list[1]) = 8 + 5 + 1
    /\ Len(layers[1]) = 14 + 2 + 12 + 4
    /\ layers[1][14] = 0

\* the file offset, in a layer, of the k-th entry record of its directory
RecordAt(layer, ifd, k) ==
    LayerFirst(layer, ifd) + CountFieldSize(ifd.big_tiff) + (k - 1) * FxEntrySize(ifd.big_tiff)

\* the k-th record carries tag id t and the value of t as copy_ifd stores a
\* value it does not relocate: in the slot, zero-padded, when it fits, and
\* otherwise at the even offset the slot holds
ValueStored(layer, ifd, k, t) ==
    LET ps == SlotSize(ifd.big_tiff)
        at == RecordAt(layer, ifd, k)
        slot == Slice(layer, at + 4 + ps, at + 4 + 2 * ps)
        data_output == to_vec_u8(ifd.tags[t].data, ifd.endian)
    IN  /\ CanSlice(layer, at, at + FxEntrySize(ifd.big_tiff))
        /\ order_read(ifd.endian, Slice(layer, at, at + 2), 2) = t
        /\ IF Len(data_output) <= ps
           THEN slot = data_output \o Repeat(0, ps - Len(data_output))
           ELSE LET ptr == order_read(ifd.endian, slot, ps)
                IN  /\ ptr % 2 = 0
                    /\ CanSlice(layer, ptr, ptr + Len(data_output))
                    /\ Slice(layer, ptr, ptr + Len(data_output)) = data_output

\* C21: every tag copy_ifd emits that is not a pointer tag has a record of
\* 12 (classic) or 20 (big) bytes; its re-encoded value is in the slot,
\* followed by zeros up to the slot width, when it is not longer than the
\* slot, and otherwise at the even offset of the layer that the slot holds.
C21_ValueInlineOrAtEvenOffset ==
    \A i \in 1 .. Len(layers) :
        LET ifd == w.ifd_list[i]
            keys == MapKeys(ifd.tags)
        IN  /\ Len(layers[i]) = RecordAt(layers[i], ifd, Len(keys) + 1) + SlotSize(ifd.big_tiff)
            /\ \A k \in 1 .. Len(keys) :
                   keys[k] \notin PointerTags => ValueStored(layers[i], ifd, k, keys[k])

\* a classic layer with a 9-byte value at offset 8: one padding byte follows
\* it, and the 10-byte value of the next tag is at offset 18
C21_Witness ==
    /\ src.kind = "outofline" /\ ~src.big /\ src.endian = "Big"
    /\ Len(layers) = 1
    /\ Slice(layers[1], 8, 18) = <<11, 12, 13, 14, 15, 16, 17, 18, 19, 0>>
    /\ Slice(layers[1], 18, 28) = <<1, 45, 1, 46, 1, 47, 1, 48, 1, 49>>
    /\ Slice(layers[1], RecordAt(layers[1], w.ifd_list[1], 1), RecordAt(layers[1], w.ifd_list[1], 2))
           = <<1, 0, 0, 4, 0, 0, 0, 1, 0, 0, 0, 42>>
    /\ Slice(layers[1], RecordAt(layers[1], w.ifd_list[1], 3), RecordAt(layers[1], w.ifd_list[1], 4))
           = <<1, 14, 0, 3, 0, 0, 0, 5, 0, 0, 0, 18>>

\* pair i of the call passes the offset validator
PairPasses(i) == check_offset(Len(ct.source), ct.offsets[i], ct.lengths[i])

\* the pairs of the call that pass the validator, in order
RECURSIVE PassingUpTo(_)
PassingUpTo(n) ==
    IF n = 0 THEN <<>>
    ELSE IF PairPasses(n) THEN Append(PassingUpTo(n - 1), n) ELSE PassingUpTo(n - 1)

\* the regions dest_offsets names for the pairs in `passing` follow one
\* another from offset `at` of the image
RECURSIVE Contiguous(_, _)
Contiguous(passing, at) ==
    IF passing = <<>> THEN at = Len(ct.out)
    ELSE /\ ct.dest_offsets[Head(passing)] = at
         /\ Contiguous(Tail(passing), at + ct.lengths[Head(passing)])

\* C22: after copy_tag_data on lists of equal length, every pair that passes
\* the offset validator has its source bytes in the image at the offset
\* returned for it, also when an earlier pair of the list failed validation,
\* and the copied regions follow one another without a gap.
C22_CopiedWhereReturned ==
    (ct.res \notin {"none", "input"} /\ ct.offsets # <<>>) =>
        /\ ct.res = "ok"
        /\ Len(ct.dest_offsets) = Len(ct.offsets)
        /\ \A i \in 1 .. Len(ct.offsets) :
              PairPasses(i) =>
                  /\ CanSlice(ct.out, ct.dest_offsets[i], ct.dest_offsets[i] + ct.lengths[i])
                  /\ Slice(ct.out, ct.dest_offsets[i], ct.dest_offsets[i] + ct.lengths[i])
                        = Slice(ct.source, ct.offsets[i], ct.offsets[i] + ct.lengths[i])
        /\ Contiguous(PassingUpTo(Len(ct.offsets)), Len(ct.image))

\* C23: an entry whose type id is none of 1..5 ends the decode in the panic
\* of the type conversion: read_tiff returns no list, partial or whole, and
\* no error value.
C23_UnknownTypePanics ==
    (Decoding /\ src.kind = "badtype") =>
        /\ w.pc \in {"walk", "panic"}
        /\ w.pc = "panic" => w.panic = "DataType::from"

\* the panic comes in the second directory, after the first was decoded
C23_Witness ==
    /\ Decoding /\ src.kind = "badtype"
    /\ src.tags = <<E257>> /\ src.endian = "Big"
    /\ Slice(src.bytes, 26 + 2 + 12 + 2, 26 + 2 + 12 + 4) = <<255, 255>>
    /\ w.pc = "panic" /\ w.panic = "DataType::from"

LayerCount(layer, ifd) ==
    LET first == LayerFirst(layer, ifd)
        cs == CountFieldSize(ifd.big_tiff)
    IN  order_read(ifd.endian, Slice(layer, first, first + cs), cs)

\* the tag ids of the records that lie between the count field and the next
\* pointer that ends the layer
RecordsWritten(layer, ifd) ==
    LET bytes == Len(layer) - SlotSize(ifd.big_tiff) - RecordAt(layer, ifd, 1)
    IN  [k \in 1 .. bytes \div FxEntrySize(ifd.big_tiff) |->
            order_read(ifd.endian, Slice(layer, RecordAt(layer, ifd, k), RecordAt(layer, ifd, k) + 2), 2)]

\* C25: the entry-count field of every layer is the number of records
\* written after it, one for each tag id of the source directory, also when
\* the source directory declared more entries because ids were repeated.
C25_CountIsRecordsWritten ==
    \A i \in 1 .. Len(layers) :
        LET ifd == w.ifd_list[i]
            written == RecordsWritten(layers[i], ifd)
        IN  /\ LayerCount(layers[i], ifd) = Len(written)
            /\ written = SortedSeq(DOMAIN ifd.tags)
            /\ src.kind = "dup" =>
                   Len(written) = Cardinality({src.tags[k].tag : k \in 1 .. Len(src.tags)})

\* four entries declared, two ids: the layer counts two
C25_Witness ==
    /\ src.kind = "dup" /\ Len(layers) = 1
    /\ Len(src.tags) = 4 /\ w.ifd_list[1].tag_count = 4
    /\ LayerCount(layers[1], w.ifd_list[1]) = 2
    /\ RecordsWritten(layers[1], w.ifd_list[1]) = <<256, 257>>

\* the layout a file of the family "nested" was built from
LayoutOf(fixture) ==
    CHOOSE l \in Layouts : NestedFixture(fixture.endian, l).bytes = fixture.bytes

RECURSIVE Reached(_, _, _)
\* the directories reached from directory d: d, the chain after it, and
\* what the tags 330 of these list
Reached(dirs, d, fuel) ==
    IF d < 1 \/ fuel = 0 THEN {}
    ELSE {d} \cup Reached(dirs, dirs[d].next, fuel - 1)
             \cup UNION {Reached(dirs, dirs[d].subs[k], fuel - 1) : k \in 1 .. Len(dirs[d].subs)}

\* the directories reached from the tag 330 of directory d
ReachedFromSubs(dirs, d) ==
    UNION {Reached(dirs, dirs[d].subs[k], MaxIfds) : k \in 1 .. Len(dirs[d].subs)}

\* the positions of directory d in the list
Positions(list, dirs, d) ==
    {p \in 1 .. Len(list) : list[p].offset = DirOffset(d, Len(dirs))}

\* directory a is in the list, and so is b, and a comes before b
ComesBefore(list, dirs, a, b) ==
    /\ Positions(list, dirs, a) # {}
    /\ Positions(list, dirs, b) # {}
    /\ \A p \in Positions(list, dirs, a), q \in Positions(list, dirs, b) : p < q

\* C26: in the list read_tiff returns, a directory comes before the one its
\* next pointer names, the directories reached from its tag 330 come before
\* it and after its predecessor in the chain; a first-directory offset of 0
\* gives Ok with an empty list.
C26_ChainOrder ==
    /\ (Decoding /\ src.kind = "nested" /\ src.order # <<>> /\ w.pc = "done") =>
          LET dirs == LayoutOf(src).dirs
              list == w.ifd_list
          IN  \A d \in Reached(dirs, 1, MaxIfds) :
                  /\ dirs[d].next > 0 => ComesBefore(list, dirs, d, dirs[d].next)
                  /\ \A s \in ReachedFromSubs(dirs, d) :
                        /\ ComesBefore(list, dirs, s, d)
                        /\ \A h \in Reached(dirs, 1, MaxIfds) :
                              dirs[h].next = d => ComesBefore(list, dirs, h, s)
    /\ (Decoding /\ src.kind = "empty") =>
          /\ w.pc \in {"walk", "done"}
          /\ w.ifd_list = <<>>

\* a top-level chain of two directories, each with a sub-directory: the
\* sub-directory of the second comes between the two
C26_Witness ==
    /\ Decoding /\ src.kind = "nested" /\ w.pc = "done"
    /\ LayoutOf(src).dirs = <<Dir(<<2>>, 3), Leaf, Dir(<<4>>, 0), Leaf>>
    /\ Offsets(w.ifd_list) = <<48, 8, 128, 88>>

\* read_tiff returned Ok with an empty list for a first-directory offset of 0
C26_WitnessEmpty ==
    Decoding /\ src.kind = "empty" /\ w.pc = "done" /\ w.ifd_list = <<>>

====
